---------------------------- MODULE Spec2Model ----------------------------
(***************************************************************************)
(* A model of the Wind Waker glTF exporter's core.                         *)
(*                                                                         *)
(*   - GLTFBuilder (converters/gltf_builder.ts): the accumulating builder  *)
(*     of buffer views, accessors, meshes, ... and its GLB packer.         *)
(*     Specification: Spec.                                                *)
(*   - MinimalBMD.parse (vendor/minimal_j3d.ts): the chunk reader of the   *)
(*     J3D model container.  Specification: ParseSpec.                     *)
(*                                                                         *)
(* Byte buffers are sequences of integers 0..255.  Text is a sequence of   *)
(* ASCII codes, so that JSON.stringify and Buffer.from(.., 'utf8') are     *)
(* computed and their byte length is a result, not an assumption.          *)
(***************************************************************************)
EXTENDS Integers, Sequences, FiniteSets, TLC

(***************************************************************************)
(* Bounds of the model.                                                    *)
(***************************************************************************)
\* Number of add* calls made on one builder.
MaxCalls == 3
\* Largest byte length of the data handed to addBufferData / addImagePNG.
MaxData == 4
\* Number of object archives of a batch, and of model files of one archive.
MaxArchives == 2
MaxFiles == 2
\* Number of shapes a SHP1 chunk may declare.  A hierarchy stream holds at
\* most MaxShapes + 1 nodes before its end node.
MaxShapes == 2
\* Number of textures of a TEX1 chunk.
MaxTextures == 2
\* Number of weighted bones of an envelope.
MaxBones == 5
\* the matrix groups of a shape and the vertices a group declares
MaxGroups == 2
MaxVertices == 2

(***************************************************************************)
(* Generic helpers.                                                        *)
(***************************************************************************)
RECURSIVE Concat(_)
Concat(ss) == IF ss = <<>> THEN <<>> ELSE Head(ss) \o Concat(Tail(ss))

RECURSIVE JoinComma(_)
JoinComma(ss) ==
    IF ss = <<>> THEN <<>>
    ELSE IF Len(ss) = 1 THEN ss[1]
    ELSE ss[1] \o <<44>> \o JoinComma(Tail(ss))

RECURSIVE SumSeq(_)
SumSeq(s) == IF s = <<>> THEN 0 ELSE Head(s) + SumSeq(Tail(s))

Zeros(n) == [i \in 1..n |-> 0]

\* The payload of a caller's Uint8Array of n bytes: no byte of it is 0, so
\* that data and zero padding can be told apart.
DataBytes(n) == [i \in 1..n |-> 255 - ((i - 1) % 7)]

(***************************************************************************)
(* Numbers as the code handles them.                                       *)
(***************************************************************************)
\* GLTFBuilder.alignTo4: (value + 3) & ~3.  On a 32-bit two's complement
\* integer w, w & ~3 clears the two low bits: w - (w mod 4).
AlignTo4(value) ==
    LET w == value + 3 IN w - (w % 4)

\* Buffer.writeUInt32LE(n): four bytes, least significant first.
U32LE(n) ==
    << n % 256, (n \div 256) % 256, (n \div 65536) % 256,
       (n \div 16777216) % 256 >>

\* Buffer.readUInt32LE at byte offset o (0-based) of buffer b.
ReadU32LE(b, o) ==
    b[o + 1] + 256 * b[o + 2] + 65536 * b[o + 3] + 16777216 * b[o + 4]

\* Decimal digits of a natural number, as JSON.stringify prints it.
RECURSIVE Dec(_)
Dec(n) == IF n < 10 THEN <<48 + n>> ELSE Dec(n \div 10) \o <<48 + (n % 10)>>

(***************************************************************************)
(* glTF enumerations (gltf_builder.ts).                                    *)
(***************************************************************************)
FLOAT == 5126
ARRAY_BUFFER == 34962
GLB_MAGIC == 1179937895        \* 0x46546C67
GLB_VERSION == 2
CHUNK_JSON == 1313821514       \* 0x4E4F534A
CHUNK_BIN == 5130562           \* 0x004E4942
HEADER_SIZE == 12
CHUNK_HEADER_SIZE == 8
PAD_SPACE == 32                \* 0x20

(***************************************************************************)
(* Inputs of the builder's operations.  An optional argument is a sequence *)
(* of length 0 (undefined) or 1.                                           *)
(***************************************************************************)
\* The caller names the k-th object it adds to a list "a", "b", "c", ...:
\* the entries of one list are pairwise different.
NameOf(k) == << 97 + k >>
\* Data of no bytes, of one byte, of MaxData bytes.
DataLens == { 0, 1, MaxData }
\* (target, byteStride) of an addBufferData call.
ViewOpts == { << <<>>, <<>> >>, << <<ARRAY_BUFFER>>, <<12>> >> }
AccessorArgs ==
    { [bufferView |-> 0, componentType |-> FLOAT, count |-> 3,
       min |-> <<>>, max |-> <<>>, normalized |-> <<>>],
      [bufferView |-> 1, componentType |-> FLOAT, count |-> 12,
       min |-> << <<0, 0, 0>> >>, max |-> << <<1, 1, 1>> >>,
       normalized |-> <<TRUE>>] }

(***************************************************************************)
(* JSON.stringify of the glTF document, as UTF-8 bytes.  Object members    *)
(* are printed in insertion order; an absent (undefined) member is not     *)
(* printed.                                                                *)
(***************************************************************************)
Quoted(s) == <<34>> \o s \o <<34>>
Member(key, value) == Quoted(key) \o <<58>> \o value
Object(members) == <<123>> \o JoinComma(members) \o <<125>>
Array(elements) == <<91>> \o JoinComma(elements) \o <<93>>
Present(r, field) == field \in DOMAIN r

\* The property names of the document, as UTF-8 bytes.
K ==
    [ asset |-> <<97, 115, 115, 101, 116>>,
      version |-> <<118, 101, 114, 115, 105, 111, 110>>,
      generator |-> <<103, 101, 110, 101, 114, 97, 116, 111, 114>>,
      scenes |-> <<115, 99, 101, 110, 101, 115>>,
      scene |-> <<115, 99, 101, 110, 101>>,
      nodes |-> <<110, 111, 100, 101, 115>>,
      meshes |-> <<109, 101, 115, 104, 101, 115>>,
      materials |-> <<109, 97, 116, 101, 114, 105, 97, 108, 115>>,
      images |-> <<105, 109, 97, 103, 101, 115>>,
      textures |-> <<116, 101, 120, 116, 117, 114, 101, 115>>,
      samplers |-> <<115, 97, 109, 112, 108, 101, 114, 115>>,
      skins |-> <<115, 107, 105, 110, 115>>,
      bufferViews |-> <<98, 117, 102, 102, 101, 114, 86, 105, 101, 119, 115>>,
      accessors |-> <<97, 99, 99, 101, 115, 115, 111, 114, 115>>,
      buffers |-> <<98, 117, 102, 102, 101, 114, 115>>,
      buffer |-> <<98, 117, 102, 102, 101, 114>>,
      byteOffset |-> <<98, 121, 116, 101, 79, 102, 102, 115, 101, 116>>,
      byteLength |-> <<98, 121, 116, 101, 76, 101, 110, 103, 116, 104>>,
      target |-> <<116, 97, 114, 103, 101, 116>>,
      byteStride |-> <<98, 121, 116, 101, 83, 116, 114, 105, 100, 101>>,
      bufferView |-> <<98, 117, 102, 102, 101, 114, 86, 105, 101, 119>>,
      componentType |->
          <<99, 111, 109, 112, 111, 110, 101, 110, 116, 84, 121, 112, 101>>,
      count |-> <<99, 111, 117, 110, 116>>,
      type |-> <<116, 121, 112, 101>>,
      min |-> <<109, 105, 110>>,
      max |-> <<109, 97, 120>>,
      normalized |-> <<110, 111, 114, 109, 97, 108, 105, 122, 101, 100>>,
      name |-> <<110, 97, 109, 101>>,
      mimeType |-> <<109, 105, 109, 101, 84, 121, 112, 101>>,
      primitives |-> <<112, 114, 105, 109, 105, 116, 105, 118, 101, 115>>,
      joints |-> <<106, 111, 105, 110, 116, 115>>,
      source |-> <<115, 111, 117, 114, 99, 101>> ]
\* The strings of the document: "2.0", "noclip Wind Waker Exporter",
\* "image/png", "VEC3" and the literal true.
T ==
    [ version |-> <<50, 46, 48>>,
      generator |->
          <<110, 111, 99, 108, 105, 112, 32, 87, 105, 110, 100, 32, 87, 97,
            107, 101, 114, 32, 69, 120, 112, 111, 114, 116, 101, 114>>,
      imagePng |-> <<105, 109, 97, 103, 101, 47, 112, 110, 103>>,
      VEC3 |-> <<86, 69, 67, 51>>,
      true |-> <<116, 114, 117, 101>> ]

(***************************************************************************)
(* The objects callers hand to the builder (interfaces GLTFMesh, GLTFNode, *)
(* ...).  The builder does not look into them.                             *)
(***************************************************************************)
CallerObject(k) ==
    [ meshes |-> [name |-> NameOf(k), primitives |-> <<>>],
      nodes |-> [name |-> NameOf(k)],
      skins |-> [joints |-> <<>>, name |-> NameOf(k)],
      materials |-> [name |-> NameOf(k)],
      samplers |-> [name |-> NameOf(k)],
      textures |-> [name |-> NameOf(k), source |-> 0],
      scenes |-> [name |-> NameOf(k), nodes |-> <<>>] ]

StringifyNumbers(s) == Array([i \in 1..Len(s) |-> Dec(s[i])])

StringifyBufferView(v) ==
    Object(<< Member(K.buffer, Dec(v.buffer)),
              Member(K.byteOffset, Dec(v.byteOffset)),
              Member(K.byteLength, Dec(v.byteLength)) >>
           \o (IF Present(v, "target")
               THEN << Member(K.target, Dec(v.target)) >> ELSE <<>>)
           \o (IF Present(v, "byteStride")
               THEN << Member(K.byteStride, Dec(v.byteStride)) >> ELSE <<>>))

StringifyAccessor(a) ==
    Object(<< Member(K.bufferView, Dec(a.bufferView)),
              Member(K.componentType, Dec(a.componentType)),
              Member(K.count, Dec(a.count)),
              Member(K.type, Quoted(a.type)) >>
           \o (IF Present(a, "min")
               THEN << Member(K.min, StringifyNumbers(a.min)) >> ELSE <<>>)
           \o (IF Present(a, "max")
               THEN << Member(K.max, StringifyNumbers(a.max)) >> ELSE <<>>)
           \o (IF Present(a, "normalized")
               THEN << Member(K.normalized, T.true) >> ELSE <<>>))

\* JSON.stringify of an object of the other interfaces; "named" is a node,
\* a material or a sampler, of which the model holds the name.
StringifyObject(interface, o) ==
    CASE interface = "image" ->
           Object(<< Member(K.name, Quoted(o.name)),
                     Member(K.mimeType, Quoted(o.mimeType)),
                     Member(K.bufferView, Dec(o.bufferView)) >>)
      [] interface = "mesh" ->
           Object(<< Member(K.name, Quoted(o.name)),
                     Member(K.primitives, Array(o.primitives)) >>)
      [] interface = "named" -> Object(<< Member(K.name, Quoted(o.name)) >>)
      [] interface = "skin" ->
           Object(<< Member(K.joints, StringifyNumbers(o.joints)),
                     Member(K.name, Quoted(o.name)) >>)
      [] interface = "texture" ->
           Object(<< Member(K.name, Quoted(o.name)),
                     Member(K.source, Dec(o.source)) >>)
      [] interface = "scene" ->
           Object(<< Member(K.name, Quoted(o.name)),
                     Member(K.nodes, StringifyNumbers(o.nodes)) >>)
      [] interface = "buffer" ->
           Object(<< Member(K.byteLength, Dec(o.byteLength)) >>)
      [] interface = "asset" ->
           Object(<< Member(K.version, Quoted(o.version)),
                     Member(K.generator, Quoted(o.generator)) >>)

\* The members of the document in the order buildJSON assigns them.
StringifyGLTF(g) ==
    Object(
        << Member(K.asset, StringifyObject("asset", g.asset)) >>
        \o (IF Present(g, "scenes")
            THEN << Member(K.scenes, Array([i \in 1..Len(g.scenes) |->
                                  StringifyObject("scene", g.scenes[i])])) >>
            ELSE <<>>)
        \o (IF Present(g, "scene")
            THEN << Member(K.scene, Dec(g.scene)) >> ELSE <<>>)
        \o (IF Present(g, "nodes")
            THEN << Member(K.nodes, Array([i \in 1..Len(g.nodes) |->
                                  StringifyObject("named", g.nodes[i])])) >>
            ELSE <<>>)
        \o (IF Present(g, "meshes")
            THEN << Member(K.meshes, Array([i \in 1..Len(g.meshes) |->
                                  StringifyObject("mesh", g.meshes[i])])) >>
            ELSE <<>>)
        \o (IF Present(g, "materials")
            THEN << Member(K.materials,
                           Array([i \in 1..Len(g.materials) |->
                                  StringifyObject("named", g.materials[i])])) >>
            ELSE <<>>)
        \o (IF Present(g, "images")
            THEN << Member(K.images, Array([i \in 1..Len(g.images) |->
                                  StringifyObject("image", g.images[i])])) >>
            ELSE <<>>)
        \o (IF Present(g, "textures")
            THEN << Member(K.textures,
                           Array([i \in 1..Len(g.textures) |->
                                  StringifyObject("texture", g.textures[i])])) >>
            ELSE <<>>)
        \o (IF Present(g, "samplers")
            THEN << Member(K.samplers,
                           Array([i \in 1..Len(g.samplers) |->
                                  StringifyObject("named", g.samplers[i])])) >>
            ELSE <<>>)
        \o (IF Present(g, "skins")
            THEN << Member(K.skins, Array([i \in 1..Len(g.skins) |->
                                  StringifyObject("skin", g.skins[i])])) >>
            ELSE <<>>)
        \o (IF Present(g, "bufferViews")
            THEN << Member(K.bufferViews,
                           Array([i \in 1..Len(g.bufferViews) |->
                                  StringifyBufferView(g.bufferViews[i])])) >>
            ELSE <<>>)
        \o (IF Present(g, "accessors")
            THEN << Member(K.accessors,
                           Array([i \in 1..Len(g.accessors) |->
                                  StringifyAccessor(g.accessors[i])])) >>
            ELSE <<>>)
        \o (IF Present(g, "buffers")
            THEN << Member(K.buffers,
                           Array([i \in 1..Len(g.buffers) |->
                                  StringifyObject("buffer", g.buffers[i])])) >>
            ELSE <<>>))

VARIABLES
    \* GLTFBuilder's fields
    bufferData, bufferViews, accessors, meshes, nodes, skins, materials,
    images, textures, samplers, scenes, currentBufferOffset,
    \* the caller of the builder: the last call made and what it returned
    call, json, glb,
    \* MinimalBMD.parse.  The input buffer as far as it has been read: its
    \* magic, the chunk tags found at the successive cursor positions, the
    \* chunk header read last, the hierarchy nodes read so far
    magic, tags, lastHeader, hierarchy,
    \* JSystemFileReaderHelper.offs, the statement parse has reached, the
    \* chunks decoded so far, shp1.shapes[i].materialIndex, whether mat3 is
    \* set, assocHierarchy's locals, and how parse ended
    offs, pc, decoded, shapes, mat3, hoffs, currentMaterialIndex, result,
    \* ModelExporter: the object archives of the input directory, the
    \* archive and the model file the loops have reached, the statement
    \* reached, the GLB files written and the log lines
    archives, ai, fi, bpc, written, log,
    \* J3DToGLBConverter.convert: the model as far as convert has read it,
    \* the statement reached, its locals textureIndexToGLTF, samplerCache,
    \* materialIndices and meshIndices, the file written and how it ended
    bmd, cpc, si, textureIndexToGLTF, samplerCache, materialIndices,
    meshIndices, outFile, cresult,
    \* extractShapeVertices, the skinning of one matrix group: the group's
    \* bone-use table with the model's DRW1 and EVP1 chunks, and the joints
    \* and weights resolved from them
    skin, binding,
    \* extractShapeVertices as a whole: the shape and the model's DRW1 and
    \* EVP1 chunks, the arrays filled by the groups processed so far, and
    \* the vertex attributes returned
    shapeArg, arrays, returned,
    \* findChunk: the buffer passed by extractTEX1Textures, the local offs,
    \* the chunk header read last, and how the scan stands
    modelData, scanOffs, scanned, tex1,
    \* SceneExporter: the output directory as far as findObjectModelGLB reads
    \* it, the field objectModelCache, and every call made so far with the
    \* path it returned
    outputBase, objectModelCache, lookups

builderVars == << bufferData, bufferViews, accessors, meshes, nodes, skins,
                  materials, images, textures, samplers, scenes,
                  currentBufferOffset, call, json, glb >>
parseVars == << magic, tags, lastHeader, hierarchy, offs, pc, decoded, shapes,
               mat3, hoffs, currentMaterialIndex, result >>
batchVars == << archives, ai, fi, bpc, written, log >>
convVars == << bmd, cpc, si, textureIndexToGLTF, samplerCache, materialIndices,
              meshIndices, outFile, cresult >>
\* What the builder's methods, what parse, what the exporter and what the
\* converter leave alone.
skinVars == << skin, binding, shapeArg, arrays, returned >>
lookupVars == << modelData, scanOffs, scanned, tex1, outputBase,
                objectModelCache, lookups >>
nonBuilderVars == << parseVars, batchVars, convVars, skinVars, lookupVars >>
nonParseVars == << builderVars, batchVars, convVars, skinVars, lookupVars >>
nonBatchVars == << builderVars, parseVars, convVars, skinVars, lookupVars >>
nonConvVars == << call, json, glb, parseVars, archives, ai, fi, bpc, written,
                 skinVars, lookupVars >>
nonSkinVars == << builderVars, parseVars, batchVars, convVars, lookupVars >>
nonLookupVars == << builderVars, parseVars, batchVars, convVars, skinVars >>
vars == << builderVars, parseVars, batchVars, convVars, skinVars,
          lookupVars >>

\* No export is running.
BatchIdle ==
    /\ archives = <<>> /\ ai = 0 /\ fi = 0 /\ bpc = "idle"
    /\ written = {} /\ log = <<>>

\* A model of which nothing has been read yet.
Unread == [ textures |-> <<>>,
            mat3 |-> [ defined |-> FALSE, materialEntries |-> <<>> ],
            shapes |-> <<>>, joints |-> 0 ]

\* No matrix group is being resolved and no shape is being extracted.
SkinIdle ==
    /\ skin = <<>> /\ binding = <<>>
    /\ shapeArg = <<>> /\ arrays = <<>> /\ returned = <<>>

\* No buffer is being scanned and no object model has been looked up.
LookupIdle ==
    /\ modelData = <<>> /\ scanOffs = 0 /\ scanned = <<>> /\ tex1 = <<>>
    /\ outputBase = <<>> /\ objectModelCache = <<>> /\ lookups = <<>>

\* No conversion is running.
ConvIdle ==
    /\ bmd = Unread /\ cpc = "idle" /\ si = 0
    /\ textureIndexToGLTF = <<>> /\ samplerCache = <<>>
    /\ materialIndices = [ textured |-> <<>>, untextured |-> <<>> ]
    /\ meshIndices = <<>> /\ outFile = <<>> /\ cresult = "none"

(***************************************************************************)
(* GLTFBuilder                                                             *)
(***************************************************************************)
NoDocument == <<>>

\* Number of add* calls made so far (addImagePNG adds a view and an image).
NumCalls ==
    Len(bufferViews) + Len(accessors)
    + Len(meshes) + Len(nodes) + Len(skins) + Len(materials) + Len(textures)
    + Len(samplers) + Len(scenes)
CanCall == NumCalls < MaxCalls

\* new Uint8Array(alignedLength); paddedData.set(data).  alignedLength is
\* never below data.byteLength (set would throw a RangeError).
PaddedData(data, alignedLength) ==
    data \o Zeros(alignedLength - Len(data))

\* The view object addBufferData builds.
NewBufferView(byteOffset, byteLength, target, byteStride) ==
    [buffer |-> 0, byteOffset |-> byteOffset, byteLength |-> byteLength]
    @@ (IF target # <<>> THEN [target |-> target[1]] ELSE <<>>)
    @@ (IF byteStride # <<>> THEN [byteStride |-> byteStride[1]] ELSE <<>>)

\* A mutation of addBufferData: the offset advances by the unpadded length.
PushBufferData_Unaligned(data, target, byteStride) ==
    /\ bufferData' = Append(bufferData,
                            PaddedData(data, AlignTo4(Len(data))))
    /\ bufferViews' = Append(bufferViews,
            NewBufferView(currentBufferOffset, Len(data), target, byteStride))
    /\ currentBufferOffset' = currentBufferOffset + Len(data)

\* A mutation of addBufferData: the view records the padded length.
PushBufferData_PaddedLength(data, target, byteStride) ==
    LET alignedLength == AlignTo4(Len(data))
    IN  /\ bufferData' = Append(bufferData, PaddedData(data, alignedLength))
        /\ bufferViews' = Append(bufferViews,
               NewBufferView(currentBufferOffset, alignedLength, target,
                             byteStride))
        /\ currentBufferOffset' = currentBufferOffset + alignedLength

\* The body of addBufferData: its effect on the builder's fields.  The index
\* it returns is bufferViews.length before the push.
PushBufferData(data, target, byteStride) ==
    LET byteOffset == currentBufferOffset
        byteLength == Len(data)
        alignedLength == AlignTo4(byteLength)
    IN  /\ bufferData' = Append(bufferData, PaddedData(data, alignedLength))
        /\ bufferViews' = Append(bufferViews,
               NewBufferView(byteOffset, byteLength, target, byteStride))
        /\ currentBufferOffset' = currentBufferOffset + alignedLength

\* The accessor object addAccessor builds.
NewAccessor(a) ==
    [bufferView |-> a.bufferView, componentType |-> a.componentType,
     count |-> a.count, type |-> T.VEC3]
    @@ (IF a.min # <<>> THEN [min |-> a.min[1]] ELSE <<>>)
    @@ (IF a.max # <<>> THEN [max |-> a.max[1]] ELSE <<>>)
    @@ (IF a.normalized # <<>> THEN [normalized |-> a.normalized[1]] ELSE <<>>)

\* A mutation of the add* operations: the index is taken after the push.
IndexOfPush_AfterPush(list) == Len(list) + 1

\* const idx = this.<list>.length, taken before the push.
IndexOfPush(list) == Len(list)

\* The caller's record of an add* call: its arguments and the index returned.
Returned(op, index) ==
    /\ call' = op @@ [returned |-> index]
    /\ json' = NoDocument
    /\ glb' = <<>>

AddBufferData ==
    \E len \in DataLens, opts \in ViewOpts :
        /\ CanCall
        /\ PushBufferData(DataBytes(len), opts[1], opts[2])
        /\ Returned([op |-> "addBufferData", len |-> len],
                    IndexOfPush(bufferViews))
        /\ UNCHANGED << accessors, meshes, nodes, skins, materials, images,
                        textures, samplers, scenes >>
        /\ UNCHANGED nonBuilderVars

AddAccessor ==
    \E a \in AccessorArgs :
        /\ CanCall
        /\ accessors' = Append(accessors, NewAccessor(a))
        /\ Returned([op |-> "addAccessor"], IndexOfPush(accessors))
        /\ UNCHANGED << bufferData, bufferViews, currentBufferOffset, meshes,
                        nodes, skins, materials, images, textures, samplers,
                        scenes >>
        /\ UNCHANGED nonBuilderVars

AddMesh ==
    /\ CanCall
    /\ meshes' = Append(meshes, CallerObject(Len(meshes)).meshes)
    /\ Returned([op |-> "addMesh"], IndexOfPush(meshes))
    /\ UNCHANGED << bufferData, bufferViews, currentBufferOffset, accessors,
                    nodes, skins, materials, images, textures, samplers, scenes >>
    /\ UNCHANGED nonBuilderVars

AddNode ==
    /\ CanCall
    /\ nodes' = Append(nodes, CallerObject(Len(nodes)).nodes)
    /\ Returned([op |-> "addNode"], IndexOfPush(nodes))
    /\ UNCHANGED << bufferData, bufferViews, currentBufferOffset, accessors,
                    meshes, skins, materials, images, textures, samplers, scenes >>
    /\ UNCHANGED nonBuilderVars

AddSkin ==
    /\ CanCall
    /\ skins' = Append(skins, CallerObject(Len(skins)).skins)
    /\ Returned([op |-> "addSkin"], IndexOfPush(skins))
    /\ UNCHANGED << bufferData, bufferViews, currentBufferOffset, accessors,
                    meshes, nodes, materials, images, textures, samplers, scenes >>
    /\ UNCHANGED nonBuilderVars

AddMaterial ==
    /\ CanCall
    /\ materials' = Append(materials, CallerObject(Len(materials)).materials)
    /\ Returned([op |-> "addMaterial"], IndexOfPush(materials))
    /\ UNCHANGED << bufferData, bufferViews, currentBufferOffset, accessors,
                    meshes, nodes, skins, images, textures, samplers, scenes >>
    /\ UNCHANGED nonBuilderVars

AddImagePNG ==
    \E len \in DataLens :
        /\ CanCall
        /\ PushBufferData(DataBytes(len), <<>>, <<>>)
        /\ images' = Append(images,
               [name |-> NameOf(Len(images)), mimeType |-> T.imagePng,
                bufferView |-> IndexOfPush(bufferViews)])
        /\ Returned([op |-> "addImagePNG", len |-> len], IndexOfPush(images))
        /\ UNCHANGED << accessors, meshes, nodes, skins, materials, textures,
                        samplers, scenes >>
        /\ UNCHANGED nonBuilderVars

AddSampler ==
    /\ CanCall
    /\ samplers' = Append(samplers, CallerObject(Len(samplers)).samplers)
    /\ Returned([op |-> "addSampler"], IndexOfPush(samplers))
    /\ UNCHANGED << bufferData, bufferViews, currentBufferOffset, accessors,
                    meshes, nodes, skins, materials, images, textures, scenes >>
    /\ UNCHANGED nonBuilderVars

AddTexture ==
    /\ CanCall
    /\ textures' = Append(textures, CallerObject(Len(textures)).textures)
    /\ Returned([op |-> "addTexture"], IndexOfPush(textures))
    /\ UNCHANGED << bufferData, bufferViews, currentBufferOffset, accessors,
                    meshes, nodes, skins, materials, images, samplers, scenes >>
    /\ UNCHANGED nonBuilderVars

AddScene ==
    /\ CanCall
    /\ scenes' = Append(scenes, CallerObject(Len(scenes)).scenes)
    /\ Returned([op |-> "addScene"], IndexOfPush(scenes))
    /\ UNCHANGED << bufferData, bufferViews, currentBufferOffset, accessors,
                    meshes, nodes, skins, materials, images, textures, samplers >>
    /\ UNCHANGED nonBuilderVars

\* A mutation of buildJSON's guards: the member is assigned unconditionally.
IfNonEmpty_Always(list, members) == members

\* if (this.<list>.length > 0) gltf.<member> = this.<list>
IfNonEmpty(list, members) == IF Len(list) > 0 THEN members ELSE <<>>

\* The document buildJSON returns: a member is assigned only under its `if`.
BuildJSONDoc ==
    LET totalBufferSize == SumSeq([i \in 1..Len(bufferData) |->
                                      Len(bufferData[i])])
    IN  [asset |-> [version |-> T.version, generator |-> T.generator]]
        @@ IfNonEmpty(scenes, [scenes |-> scenes, scene |-> 0])
        @@ IfNonEmpty(nodes, [nodes |-> nodes])
        @@ IfNonEmpty(meshes, [meshes |-> meshes])
        @@ IfNonEmpty(materials, [materials |-> materials])
        @@ IfNonEmpty(images, [images |-> images])
        @@ IfNonEmpty(textures, [textures |-> textures])
        @@ IfNonEmpty(samplers, [samplers |-> samplers])
        @@ IfNonEmpty(skins, [skins |-> skins])
        @@ IfNonEmpty(bufferViews, [bufferViews |-> bufferViews])
        @@ IfNonEmpty(accessors, [accessors |-> accessors])
        @@ (IF totalBufferSize > 0
            THEN [buffers |-> << [byteLength |-> totalBufferSize] >>]
            ELSE <<>>)

\* Buffer.alloc(alignedLength, fill) followed by source.copy(target): the
\* copy stops at the end of the shorter of the two buffers.
AllocAndCopy(source, alignedLength, fill) ==
    IF alignedLength >= Len(source)
    THEN source \o [i \in 1..(alignedLength - Len(source)) |-> fill]
    ELSE SubSeq(source, 1, alignedLength)

\* A mutation of totalLength: the two chunk headers are left out.
TotalLength_Bare(jsonAlignedLength, binaryByteLength, binaryAlignedLength) ==
    HEADER_SIZE + jsonAlignedLength
    + (IF binaryByteLength > 0 THEN binaryAlignedLength ELSE 0)

\* const totalLength = 12 + 8 + jsonAlignedLength
\*                     + (binaryData.byteLength > 0 ? 8 + binaryAlignedLength : 0)
TotalLength(jsonAlignedLength, binaryByteLength, binaryAlignedLength) ==
    HEADER_SIZE + CHUNK_HEADER_SIZE + jsonAlignedLength
    + (IF binaryByteLength > 0
       THEN CHUNK_HEADER_SIZE + binaryAlignedLength ELSE 0)

\* A mutation of the binary chunk's guard: the chunk is always written.
HasBinaryChunk_Always(binaryData) == TRUE

\* if (binaryData.byteLength > 0) chunks.push(binaryChunkHeader, binaryPadded)
HasBinaryChunk(binaryData) == Len(binaryData) > 0

\* The body of buildGLB from the document on: header, JSON chunk and, when
\* the concatenated blob is not empty, the binary chunk.
PackGLB(gltfJson, blobs) ==
    LET jsonBuffer == StringifyGLTF(gltfJson)
        jsonAlignedLength == AlignTo4(Len(jsonBuffer))
        jsonPadded == AllocAndCopy(jsonBuffer, jsonAlignedLength, PAD_SPACE)
        binaryData == Concat(blobs)
        binaryAlignedLength == AlignTo4(Len(binaryData))
        binaryPadded == AllocAndCopy(binaryData, binaryAlignedLength, 0)
        totalLength == TotalLength(jsonAlignedLength, Len(binaryData),
                                   binaryAlignedLength)
        header == U32LE(GLB_MAGIC) \o U32LE(GLB_VERSION) \o U32LE(totalLength)
        jsonChunkHeader == U32LE(jsonAlignedLength) \o U32LE(CHUNK_JSON)
        chunks == << header, jsonChunkHeader, jsonPadded >>
                  \o (IF HasBinaryChunk(binaryData)
                      THEN << U32LE(binaryAlignedLength) \o U32LE(CHUNK_BIN),
                              binaryPadded >>
                      ELSE <<>>)
    IN  Concat(chunks)

BuildJSON ==
    /\ json' = BuildJSONDoc
    /\ call' = [op |-> "buildJSON"]
    /\ glb' = <<>>
    /\ UNCHANGED << bufferData, bufferViews, currentBufferOffset, accessors,
                    meshes, nodes, skins, materials, images, textures,
                    samplers, scenes >>
    /\ UNCHANGED nonBuilderVars

\* A mutation of buildGLB: the blob list is emptied once it has been packed.
BuildGLB_DrainsBlob ==
    /\ glb' = PackGLB(BuildJSONDoc, bufferData)
    /\ call' = [op |-> "buildGLB", repeated |-> call.op = "buildGLB"]
    /\ json' = NoDocument
    /\ bufferData' = <<>>
    /\ UNCHANGED << bufferViews, currentBufferOffset, accessors,
                    meshes, nodes, skins, materials, images, textures,
                    samplers, scenes >>
    /\ UNCHANGED nonBuilderVars

\* The caller notes whether the call before this one was a buildGLB too.
BuildGLB ==
    /\ glb' = PackGLB(BuildJSONDoc, bufferData)
    /\ call' = [op |-> "buildGLB", repeated |-> call.op = "buildGLB"]
    /\ json' = NoDocument
    /\ UNCHANGED << bufferData, bufferViews, currentBufferOffset, accessors,
                    meshes, nodes, skins, materials, images, textures,
                    samplers, scenes >>
    /\ UNCHANGED nonBuilderVars

BuilderInit ==
    /\ bufferData = <<>>
    /\ bufferViews = <<>>
    /\ accessors = <<>>
    /\ meshes = <<>>
    /\ nodes = <<>>
    /\ skins = <<>>
    /\ materials = <<>>
    /\ images = <<>>
    /\ textures = <<>>
    /\ samplers = <<>>
    /\ scenes = <<>>
    /\ currentBufferOffset = 0
    /\ call = [op |-> "new"]
    /\ json = NoDocument
    /\ glb = <<>>

(***************************************************************************)
(* MinimalBMD.parse and JSystemFileReaderHelper (vendor/minimal_j3d.ts).   *)
(*                                                                         *)
(* The input buffer is revealed as the reader reads it: a read at the      *)
(* cursor finds any header, or the end of the buffer.  Chunk sizes are     *)
(* unsigned, so the cursor never moves back and the only header that can   *)
(* be read twice is the one read last (declared size 0).                   *)
(***************************************************************************)
CHUNKS_START == 32             \* 0x20
UNASSIGNED == -1
NODE_END == 0                  \* 0x00
NODE_MATERIAL == 17            \* 0x11
NODE_SHAPE == 18               \* 0x12

AcceptedMagics == { "J3D2bmd2", "J3D2bmd3", "J3D2bdl4" }
MandatoryChunks == << "INF1", "VTX1", "EVP1", "DRW1", "JNT1", "SHP1" >>
\* What a read of 8 bytes at the cursor can find.  "EOB": the cursor is at
\* or beyond the end of the buffer.
Headers ==
    [ id : { "INF1", "VTX1", "EVP1", "DRW1", "JNT1", "SHP1", "MAT3", "TEX1" },
      size : { 0, 8, 16 } ]
    \cup { [ id |-> "EOB", size |-> 0 ] }
NoHeader == [ id |-> "", size |-> 0, at |-> 0 ]
\* The header found at cursor position o: the one read last when o is where
\* it was read, any header otherwise.
HeadersAt(o) ==
    IF lastHeader.id # "" /\ lastHeader.at = o
    THEN { [ id |-> lastHeader.id, size |-> lastHeader.size ] }
    ELSE Headers
\* The (type, value) pairs of a hierarchy stream: an end node, material
\* nodes, shape nodes (value MaxShapes names no shape) and a node of a type
\* the loop has no branch for (0x10, a joint).
HierarchyNodes ==
    { [ type |-> NODE_END, value |-> 0 ], [ type |-> 16, value |-> 0 ] }
    \cup [ type : { NODE_MATERIAL }, value : 0..1 ]
    \cup [ type : { NODE_SHAPE }, value : 0..MaxShapes ]

ParseIdle ==
    /\ magic = "" /\ tags = <<>> /\ lastHeader = NoHeader /\ hierarchy = <<>>
    /\ offs = 0 /\ pc = "idle" /\ decoded = <<>> /\ shapes = <<>>
    /\ mat3 = FALSE /\ hoffs = 0 /\ currentMaterialIndex = UNASSIGNED
    /\ result = "none"

ParseInit ==
    /\ BuilderInit
    /\ BatchIdle
    /\ ConvIdle
    /\ SkinIdle /\ LookupIdle
    \* "J3D1bmd1": another format; "short": a buffer that ends before 0x10
    /\ magic \in AcceptedMagics \cup { "J3D1bmd1", "short" }
    /\ tags = <<>> /\ lastHeader = NoHeader /\ hierarchy = <<>>
    /\ offs = 0 /\ pc = "parse" /\ decoded = <<>> /\ shapes = <<>>
    /\ mat3 = FALSE /\ hoffs = 0 /\ currentMaterialIndex = UNASSIGNED
    /\ result = "none"

\* An exception leaves parse: no model is returned.
Throw ==
    /\ pc' = "done"
    /\ result' = "error"

\* assert, imported from util.js: it returns when the condition is true and
\* throws when it is false.
assert(condition) == condition

\* A mutation of parse's assert: any magic that starts with "J3D" passes.
MagicAccepted_AnyJ3D(m) == m \in AcceptedMagics \cup { "J3D1bmd1" }

\* assert(j3d.magic === 'J3D2bmd2' || j3d.magic === 'J3D2bmd3'
\*        || j3d.magic === 'J3D2bdl4')
MagicAccepted(m) == m \in AcceptedMagics

\* parse up to the call of the constructor: new JSystemFileReaderHelper
\* (offs = 0x20; getUint32(0x0C) throws on a buffer that ends before 0x10),
\* then the assert on the magic.
ParseStart ==
    /\ pc = "parse"
    /\ IF magic = "short"
       THEN Throw /\ UNCHANGED offs
       ELSE /\ offs' = CHUNKS_START
            /\ IF assert(MagicAccepted(magic))
               THEN pc' = MandatoryChunks[1] /\ UNCHANGED result
               ELSE Throw
    /\ UNCHANGED << magic, tags, lastHeader, hierarchy, decoded, shapes, mat3,
                    hoffs, currentMaterialIndex >>
    /\ UNCHANGED nonParseVars

\* The statement after the one that reads chunk id.
After(id) ==
    CASE id = "INF1" -> "VTX1"
      [] id = "VTX1" -> "EVP1"
      [] id = "EVP1" -> "DRW1"
      [] id = "DRW1" -> "JNT1"
      [] id = "JNT1" -> "SHP1"
      [] id = "SHP1" -> "MAT3"

\* A mutation of the cursor: the size is taken not to count the header.
Advanced_PastHeader(cursor, chunkSize) == cursor + 8 + chunkSize

\* this.offs += chunkSize
Advanced(cursor, chunkSize) == cursor + chunkSize

\* A mutation of nextChunk: the tag is not checked.
TagMatches_Unchecked(chunkId, expectedChunkId) == chunkId # "EOB"

\* assert(chunkId === expectedChunkId)
TagMatches(chunkId, expectedChunkId) == chunkId = expectedChunkId

\* this.<x> = read<X>Chunk(j3d.nextChunk('<X>')) for the six mandatory
\* chunks.  nextChunk reads the tag and the size at the cursor (a RangeError
\* at the end of the buffer), asserts the tag and advances the cursor by
\* the size; the chunk's decoder then returns or throws on its payload.
ReadMandatoryChunk ==
    /\ pc \in { MandatoryChunks[i] : i \in 1..Len(MandatoryChunks) }
    /\ \E h \in HeadersAt(offs), decodes \in BOOLEAN,
          shapeCount \in 0..MaxShapes :
        /\ tags' = Append(tags, h.id)
        /\ lastHeader' = [ id |-> h.id, size |-> h.size, at |-> offs ]
        /\ IF h.id # "EOB" /\ assert(TagMatches(h.id, pc))
           THEN /\ offs' = Advanced(offs, h.size)
                /\ IF decodes
                   THEN /\ decoded' = Append(decoded, pc)
                        /\ shapes' = IF pc = "SHP1"
                                     THEN [ i \in 1..shapeCount |-> UNASSIGNED ]
                                     ELSE shapes
                        /\ (pc # "SHP1" => shapeCount = 0)
                        /\ pc' = After(pc)
                        /\ UNCHANGED result
                   ELSE /\ shapeCount = 0
                        /\ Throw
                        /\ UNCHANGED << decoded, shapes >>
           ELSE /\ decodes /\ shapeCount = 0
                /\ Throw
                /\ UNCHANGED << offs, decoded, shapes >>
    /\ UNCHANGED << magic, hierarchy, mat3, hoffs, currentMaterialIndex >>
    /\ UNCHANGED nonParseVars

\* const mat3Chunk = j3d.maybeNextChunk('MAT3'); if (mat3Chunk) this.mat3 =
\* readMAT3Chunk(mat3Chunk).  What readString does at the end of the buffer
\* is not in this repository: it returns a tag that is not 'MAT3', or throws.
ReadOptionalMAT3 ==
    /\ pc = "MAT3"
    /\ \E h \in HeadersAt(offs), decodes \in BOOLEAN, throwsAtEnd \in BOOLEAN :
        /\ tags' = Append(tags, h.id)
        /\ lastHeader' = [ id |-> h.id, size |-> h.size, at |-> offs ]
        /\ IF h.id = "MAT3"
           THEN /\ ~throwsAtEnd
                /\ offs' = Advanced(offs, h.size)
                /\ IF decodes
                   THEN /\ mat3' = TRUE
                        /\ decoded' = Append(decoded, "MAT3")
                        /\ pc' = "assocHierarchy"
                        /\ UNCHANGED result
                   ELSE Throw /\ UNCHANGED << mat3, decoded >>
           ELSE /\ decodes
                /\ h.size = 0          \* the size is not read
                /\ (throwsAtEnd => h.id = "EOB")
                /\ IF throwsAtEnd
                   THEN Throw
                   ELSE pc' = "assocHierarchy" /\ UNCHANGED result
                /\ UNCHANGED << offs, mat3, decoded >>
    /\ UNCHANGED << magic, hierarchy, shapes, hoffs, currentMaterialIndex >>
    /\ UNCHANGED nonParseVars

\* One turn of assocHierarchy's loop: the node at hoffs is read (a RangeError
\* at the end of the hierarchy data) and dispatched on its type.
AssocHierarchyStep ==
    /\ pc = "assocHierarchy"
    /\ \E node \in HierarchyNodes, atEnd \in BOOLEAN :
        /\ (atEnd => node = [ type |-> NODE_END, value |-> 0 ])
        /\ (Len(hierarchy) > MaxShapes => atEnd \/ node.type = NODE_END)
        /\ IF atEnd
           THEN Throw /\ UNCHANGED << hierarchy, hoffs, currentMaterialIndex,
                                      shapes >>
           ELSE /\ hierarchy' = Append(hierarchy, node)
                /\ CASE node.type = NODE_END ->
                          /\ pc' = "assocCheck"
                          /\ UNCHANGED << hoffs, currentMaterialIndex, shapes,
                                          result >>
                     [] node.type = NODE_MATERIAL ->
                          /\ currentMaterialIndex' = node.value
                          /\ hoffs' = hoffs + 4
                          /\ UNCHANGED << pc, shapes, result >>
                     [] node.type = NODE_SHAPE ->
                          \* shapes[value] is undefined beyond the list: the
                          \* read of its materialIndex throws a TypeError
                          IF /\ node.value + 1 \in DOMAIN shapes
                             /\ assert(currentMaterialIndex # UNASSIGNED)
                             /\ assert(shapes[node.value + 1] = UNASSIGNED)
                          THEN /\ shapes' = [ shapes EXCEPT ![node.value + 1] =
                                                currentMaterialIndex ]
                               /\ hoffs' = hoffs + 4
                               /\ UNCHANGED << pc, currentMaterialIndex,
                                               result >>
                          ELSE Throw /\ UNCHANGED << hoffs, shapes,
                                                     currentMaterialIndex >>
                     [] OTHER ->
                          /\ hoffs' = hoffs + 4
                          /\ UNCHANGED << pc, currentMaterialIndex, shapes,
                                          result >>
    /\ UNCHANGED << magic, tags, lastHeader, offs, decoded, mat3 >>
    /\ UNCHANGED nonParseVars

\* A mutation of assocHierarchy: the loop after the stream is left out.
AssocHierarchyCheck_Skipped ==
    /\ pc = "assocCheck"
    /\ pc' = "done"
    /\ result' = "model"
    /\ UNCHANGED << magic, tags, lastHeader, hierarchy, offs, decoded, shapes,
                    mat3, hoffs, currentMaterialIndex >>
    /\ UNCHANGED nonParseVars

\* The loop after the stream: every shape must have a material index.  The
\* constructor then returns and parse returns the model.
AssocHierarchyCheck ==
    /\ pc = "assocCheck"
    /\ pc' = "done"
    /\ result' = IF \A i \in DOMAIN shapes : assert(shapes[i] # UNASSIGNED)
                 THEN "model" ELSE "error"
    /\ UNCHANGED << magic, tags, lastHeader, hierarchy, offs, decoded, shapes,
                    mat3, hoffs, currentMaterialIndex >>
    /\ UNCHANGED nonParseVars

ParseNext ==
    \/ ParseStart
    \/ ReadMandatoryChunk
    \/ ReadOptionalMAT3
    \/ AssocHierarchyStep
    \/ AssocHierarchyCheck

ParseSpec == ParseInit /\ [][ParseNext]_vars

(***************************************************************************)
(* ModelExporter (exporters/model_exporter.ts): the export of the object   *)
(* archives.  export() first runs exportStageModels, which catches every   *)
(* exception of its own and writes under Stage/ only, then                 *)
(* exportObjectModels, which calls exportObjectModel for each archive.     *)
(*                                                                         *)
(* A model file of an archive is "good", "missing" (findFilenameData       *)
(* finds nothing: loadBDLFromArchive returns null), "unparsable"           *)
(* (BMD.parse throws) or "unconvertible" (converter.convert throws).       *)
(***************************************************************************)
FileKinds == { "good", "missing", "unparsable", "unconvertible" }
\* An archive is absent (existsSync is false), corrupt (loadArchive throws)
\* or loads and holds model files.
Archives ==
    { [ state |-> "absent", files |-> <<>> ],
      [ state |-> "corrupt", files |-> <<>> ] }
    \cup [ state : { "loaded" },
           files : UNION { [ 1..n -> FileKinds ] : n \in 0..MaxFiles } ]

BatchInit ==
    /\ BuilderInit
    /\ ParseIdle
    /\ ConvIdle
    /\ SkinIdle /\ LookupIdle
    /\ archives \in UNION { [ 1..n -> Archives ] : n \in 0..MaxArchives }
    /\ ai = 0 /\ fi = 0 /\ bpc = "export"
    /\ written = {} /\ log = <<>>

Logged(level, message, a, f) ==
    log' = Append(log, [ level |-> level, message |-> message,
                         archive |-> a, file |-> f ])

\* export() up to the loop of exportObjectModels.
ExportStart ==
    /\ bpc = "export"
    /\ bpc' = "objects"
    /\ ai' = 1
    /\ Logged("info", "Exporting object models", 0, 0)
    /\ UNCHANGED << archives, fi, written >>
    /\ UNCHANGED nonBatchVars

\* exportObjectModel up to its loop over the model files.
OpenArchive ==
    /\ bpc = "objects"
    /\ ai <= Len(archives)
    /\ LET archive == archives[ai] IN
       CASE archive.state = "absent" ->
                /\ Logged("debug", "Archive not found for object", ai, 0)
                /\ ai' = ai + 1
                /\ UNCHANGED << fi, bpc >>
         [] archive.state = "corrupt" ->
                /\ Logged("error", "Failed to export object", ai, 0)
                /\ ai' = ai + 1
                /\ UNCHANGED << fi, bpc >>
         [] archive.state = "loaded" /\ Len(archive.files) = 0 ->
                /\ Logged("debug", "No models found in archive", ai, 0)
                /\ ai' = ai + 1
                /\ UNCHANGED << fi, bpc >>
         [] OTHER ->
                /\ Logged("debug", "Loading object archive", ai, 0)
                /\ fi' = 1
                /\ bpc' = "models"
                /\ UNCHANGED ai
    /\ UNCHANGED << archives, written >>
    /\ UNCHANGED nonBatchVars

\* Where exportObjectModel goes on after loadBDLFromArchive or convert has
\* thrown: the catch clause is outside the loop over the model files.
AfterFailure == [ ai |-> ai + 1, fi |-> fi, bpc |-> "objects" ]

\* One turn of the loop over the model files of an archive.
ExportModelFile ==
    /\ bpc = "models"
    /\ fi <= Len(archives[ai].files)
    /\ LET kind == archives[ai].files[fi] IN
       CASE kind = "good" ->
                /\ written' = written \cup { << ai, fi >> }
                /\ Logged("debug", "Successfully wrote GLB", ai, fi)
                /\ fi' = fi + 1
                /\ UNCHANGED << ai, bpc >>
         [] kind = "missing" ->
                /\ Logged("warn", "File not found in archive", ai, fi)
                /\ fi' = fi + 1
                /\ UNCHANGED << ai, bpc, written >>
         [] kind = "unparsable" ->
                /\ Logged("error", "Failed to export object", ai, fi)
                /\ ai' = AfterFailure.ai
                /\ fi' = AfterFailure.fi
                /\ bpc' = AfterFailure.bpc
                /\ UNCHANGED written
         [] kind = "unconvertible" ->
                /\ log' = log \o
                     << [ level |-> "error",
                          message |-> "Failed to convert J3D to GLB",
                          archive |-> ai, file |-> fi ],
                        [ level |-> "error",
                          message |-> "Failed to export object",
                          archive |-> ai, file |-> fi ] >>
                /\ ai' = AfterFailure.ai
                /\ fi' = AfterFailure.fi
                /\ bpc' = AfterFailure.bpc
                /\ UNCHANGED written
    /\ UNCHANGED archives
    /\ UNCHANGED nonBatchVars

\* The loop over the model files has ended.
CloseArchive ==
    /\ bpc = "models"
    /\ fi > Len(archives[ai].files)
    /\ Logged("info", "Exported object", ai, 0)
    /\ ai' = ai + 1
    /\ bpc' = "objects"
    /\ UNCHANGED << archives, fi, written >>
    /\ UNCHANGED nonBatchVars

\* The loop of exportObjectModels has ended: export() returns.
ExportEnd ==
    /\ bpc = "objects"
    /\ ai > Len(archives)
    /\ bpc' = "done"
    /\ Logged("info", "Model export complete!", 0, 0)
    /\ UNCHANGED << archives, ai, fi, written >>
    /\ UNCHANGED nonBatchVars

BatchNext ==
    \/ ExportStart
    \/ OpenArchive
    \/ ExportModelFile
    \/ CloseArchive
    \/ ExportEnd

(***************************************************************************)
(* J3DToGLBConverter.convert.  The builder is the converter's local         *)
(* GLTFBuilder; one action makes several of its calls, so its methods are   *)
(* applied here to a record of its fields.                                  *)
(***************************************************************************)
UNSIGNED_BYTE == 5121
UNSIGNED_SHORT == 5123
ELEMENT_ARRAY_BUFFER == 34963

\* The texture slots of a MAT3 entry: eight TEX1 indices, -1 for a slot
\* whose table index is 0xFFFF.
Slots(first, second) == << first, second, -1, -1, -1, -1, -1, -1 >>

\* One texture of the TEX1 chunk: whether it has pixel data, whether
\* convertToPNG decodes it, and its filter and wrap settings.
TextureInputs ==
    { [ data |-> FALSE, decodable |-> FALSE, filter |-> 0 ],
      [ data |-> TRUE, decodable |-> FALSE, filter |-> 0 ],
      [ data |-> TRUE, decodable |-> TRUE, filter |-> 0 ] }

\* bmd.mat3: undefined, or its materialEntries[i].textureIndexes.
Mat3(entries) == [ defined |-> TRUE, materialEntries |-> entries ]
Mat3Inputs ==
    { [ defined |-> FALSE, materialEntries |-> <<>> ],
      Mat3(<< Slots(0, 1) >>),
      Mat3(<< Slots(-1, -1), Slots(-1, 1) >>),
      Mat3(<< Slots(1, -1), Slots(0, -1) >>) }

\* What extractShapeVertices returns: the number of vertices and of
\* indices, and which of the optional arrays are defined.
VertexData(vertexCount, indexCount, normals, texCoords0) ==
    [ thrown |-> FALSE, positions |-> vertexCount, indices |-> indexCount,
      normals |-> normals, texCoords0 |-> texCoords0, colorsU8 |-> FALSE,
      skinned |-> vertexCount > 0 ]

\* One shape of bmd.shp1.shapes: its material, whether its vertex layout
\* has a TEX0 offset, and what extractShapeVertices makes of it: vertex
\* data, or an exception (thrown).
ShapeInputs ==
    { [ materialIndex |-> 0, hasUV |-> TRUE,
        vertexData |-> VertexData(1, 3, TRUE, TRUE) ],
      [ materialIndex |-> 0, hasUV |-> FALSE,
        vertexData |-> VertexData(1, 3, FALSE, FALSE) ],
      [ materialIndex |-> 1, hasUV |-> TRUE,
        vertexData |-> VertexData(1, 3, FALSE, TRUE) ],
      [ materialIndex |-> 1, hasUV |-> TRUE,
        vertexData |-> [ VertexData(0, 0, FALSE, FALSE)
                           EXCEPT !.thrown = TRUE ] ],
      [ materialIndex |-> 0, hasUV |-> TRUE,
        vertexData |-> VertexData(0, 0, FALSE, FALSE) ],
      [ materialIndex |-> 1, hasUV |-> FALSE,
        vertexData |-> VertexData(1, 0, FALSE, FALSE) ] }

ConvertInit ==
    /\ BuilderInit
    /\ ParseIdle
    /\ BatchIdle
    /\ SkinIdle /\ LookupIdle
    /\ bmd = Unread /\ cpc = "convert" /\ si = 0
    /\ textureIndexToGLTF = <<>> /\ samplerCache = <<>>
    /\ materialIndices = [ textured |-> <<>>, untextured |-> <<>> ]
    /\ meshIndices = <<>> /\ outFile = <<>> /\ cresult = "none"

\* The fields of the converter's builder.
Builder ==
    [ bufferData |-> bufferData, bufferViews |-> bufferViews,
      accessors |-> accessors, meshes |-> meshes, nodes |-> nodes,
      skins |-> skins, materials |-> materials, images |-> images,
      textures |-> textures, samplers |-> samplers, scenes |-> scenes,
      currentBufferOffset |-> currentBufferOffset ]

BuilderBecomes(b) ==
    /\ bufferData' = b.bufferData /\ bufferViews' = b.bufferViews
    /\ accessors' = b.accessors /\ meshes' = b.meshes /\ nodes' = b.nodes
    /\ skins' = b.skins /\ materials' = b.materials /\ images' = b.images
    /\ textures' = b.textures /\ samplers' = b.samplers
    /\ scenes' = b.scenes
    /\ currentBufferOffset' = b.currentBufferOffset

\* builder.addBufferData(data, target); it returns Len(b.bufferViews).
WithBufferData(b, data, target) ==
    LET byteOffset == b.currentBufferOffset
        byteLength == Len(data)
        alignedLength == AlignTo4(byteLength)
    IN  [ b EXCEPT
            !.bufferData = Append(@, PaddedData(data, alignedLength)),
            !.bufferViews = Append(@, NewBufferView(byteOffset, byteLength,
                                                    target, <<>>)),
            !.currentBufferOffset = @ + alignedLength ]

\* The accessor object addAccessor builds from its arguments.
AccessorOf(bufferView, componentType, count, type, min, max, normalized) ==
    [ bufferView |-> bufferView, componentType |-> componentType,
      count |-> count, type |-> type ]
    @@ (IF min # <<>> THEN [ min |-> min[1] ] ELSE <<>>)
    @@ (IF max # <<>> THEN [ max |-> max[1] ] ELSE <<>>)
    @@ (IF normalized # <<>> THEN [ normalized |-> normalized[1] ] ELSE <<>>)

\* builder.add<list>(object); it returns Len(b[list]).
With(b, list, object) == [ b EXCEPT ![list] = Append(@, object) ]

\* logger.warn, logger.error and logger.debug of the converter.
ConvLogged(level, message, index) ==
    log' = Append(log, [ level |-> level, message |-> message,
                         index |-> index ])

\* The catch clause of convert: the error is logged and thrown again.
ConvertFails ==
    /\ ConvLogged("error", "Failed to convert J3D to GLB", 0)
    /\ cpc' = "done"
    /\ cresult' = "error"

\* new GLTFBuilder(), initRustForNode() and the reading of the TEX1 chunk
\* out of bmd.sourceBuffer.
ConvertStart ==
    /\ cpc = "convert"
    /\ \E rust \in { "ready", "fails" },
          source \in { "readable", "absent", "unreadable" } :
         CASE rust = "fails" -> ConvertFails
           [] rust = "ready" /\ source = "readable" ->
                /\ cpc' = "textures"
                /\ UNCHANGED << log, cresult >>
           [] rust = "ready" /\ source = "absent" ->
                /\ cpc' = "materials"
                /\ UNCHANGED << log, cresult >>
           [] rust = "ready" /\ source = "unreadable" ->
                /\ ConvLogged("warn", "Texture embedding skipped", 0)
                /\ cpc' = "materials"
                /\ UNCHANGED cresult
    /\ UNCHANGED << bmd, si, textureIndexToGLTF, samplerCache,
                    materialIndices, meshIndices, outFile >>
    /\ UNCHANGED << bufferData, bufferViews, accessors, meshes, nodes, skins,
                    materials, images, textures, samplers, scenes,
                    currentBufferOffset >>
    /\ UNCHANGED nonConvVars

\* Key of samplerCache: the texture's minFilter|magFilter|wrapS|wrapT.
SamplerKey(tex) == tex.filter

\* The sampler object convert hands to addSampler.
SamplerOf(tex) ==
    [ magFilter |-> tex.filter, minFilter |-> tex.filter,
      wrapS |-> tex.filter, wrapT |-> tex.filter ]

\* One turn of the loop over the textures: textures[i] is read.  A texture
\* without data is passed over; one that convertToPNG cannot decode is
\* logged; any other gets an image, a sampler (shared between textures of
\* the same settings) and a texture, and textureIndexToGLTF maps i to it.
EmbedTexture ==
    /\ cpc = "textures"
    /\ Len(bmd.textures) < MaxTextures
    /\ \E tex \in TextureInputs :
         LET i == Len(bmd.textures)
             imageIdx == IndexOfPush(images)
             cached == SamplerKey(tex) \in DOMAIN samplerCache
             samplerIdx == IF cached THEN samplerCache[SamplerKey(tex)]
                           ELSE IndexOfPush(samplers)
             textureIdx == IndexOfPush(textures)
         IN  /\ bmd' = [ bmd EXCEPT !.textures = Append(@, tex) ]
             /\ CASE ~tex.data ->
                       UNCHANGED << bufferData, bufferViews,
                                    currentBufferOffset, images, samplers,
                                    textures, samplerCache,
                                    textureIndexToGLTF, log >>
                  [] tex.data /\ ~tex.decodable ->
                       /\ ConvLogged("warn", "Failed to embed texture", i)
                       /\ UNCHANGED << bufferData, bufferViews,
                                       currentBufferOffset, images, samplers,
                                       textures, samplerCache,
                                       textureIndexToGLTF >>
                  [] tex.data /\ tex.decodable ->
                       /\ PushBufferData(DataBytes(MaxData), <<>>, <<>>)
                       /\ images' = Append(images,
                              [ name |-> << "tex", i >>,
                                mimeType |-> T.imagePng,
                                bufferView |-> IndexOfPush(bufferViews) ])
                       /\ samplers' = IF cached THEN samplers
                                      ELSE Append(samplers, SamplerOf(tex))
                       /\ samplerCache' =
                              IF cached THEN samplerCache
                              ELSE (SamplerKey(tex) :> samplerIdx)
                                   @@ samplerCache
                       /\ textures' = Append(textures,
                              [ name |-> << "tex", i >>,
                                source |-> imageIdx,
                                sampler |-> samplerIdx ])
                       /\ textureIndexToGLTF' =
                              (i :> textureIdx) @@ textureIndexToGLTF
                       /\ UNCHANGED log
    /\ UNCHANGED << cpc, si, materialIndices, meshIndices, outFile, cresult >>
    /\ UNCHANGED << accessors, meshes, nodes, skins, materials, scenes >>
    /\ UNCHANGED nonConvVars

\* i has reached textures.length.
EndTextures ==
    /\ cpc = "textures"
    /\ cpc' = "materials"
    /\ UNCHANGED << bmd, si, textureIndexToGLTF, samplerCache,
                    materialIndices, meshIndices, outFile, cresult, log >>
    /\ UNCHANGED << bufferData, bufferViews, accessors, meshes, nodes, skins,
                    materials, images, textures, samplers, scenes,
                    currentBufferOffset >>
    /\ UNCHANGED nonConvVars

\* computeMaterialUsage: the materials of the shapes with, and of the
\* shapes without, a TEX0 offset.
ComputeMaterialUsage(shapeList) ==
    [ withUV |-> { shapeList[i].materialIndex :
                     i \in { j \in 1..Len(shapeList) : shapeList[j].hasUV } },
      withoutUV |-> { shapeList[i].materialIndex :
                     i \in { j \in 1..Len(shapeList) : ~shapeList[j].hasUV } } ]

RECURSIVE SortedAscending(_)
\* Array.from(set.values()).sort((a,b)=>a-b)
SortedAscending(S) ==
    IF S = {} THEN <<>>
    ELSE LET least == CHOOSE x \in S : \A y \in S : x <= y
         IN  << least >> \o SortedAscending(S \ { least })

\* .length of a JavaScript array filled by list[idx] = value: one more
\* than its greatest index.
ArrayLength(list) ==
    IF DOMAIN list = {} THEN 0
    ELSE 1 + CHOOSE x \in DOMAIN list : \A y \in DOMAIN list : y <= x

\* A mutation of the slot loop: the first non-negative slot is taken whether
\* or not its texture was embedded.
FirstValidSlot_Unchecked(textureIndexes, map) ==
    LET named == { j \in 1..Len(textureIndexes) : textureIndexes[j] >= 0 }
        j0 == CHOOSE j \in named : \A k \in named : j <= k
    IN  IF named # {} THEN << textureIndexes[j0] >> ELSE <<>>

\* for (const texIdx of matEntry.textureIndexes)
\*     if (texIdx >= 0 && textureIndexToGLTF.has(texIdx)) { ...; break; }
\* The result is <<>> when gltfTextureIndex stays undefined.
FirstValidSlot(textureIndexes, map) ==
    LET valid == { j \in 1..Len(textureIndexes) :
                     textureIndexes[j] >= 0
                     /\ textureIndexes[j] \in DOMAIN map }
        j0 == CHOOSE j \in valid : \A k \in valid : j <= k
    IN  IF valid # {} THEN << map[textureIndexes[j0]] >> ELSE <<>>

\* gltfTextureIndex of material idx.
GltfTextureIndex(model, idx, map) ==
    IF model.mat3.defined /\ idx < Len(model.mat3.materialEntries)
    THEN FirstValidSlot(model.mat3.materialEntries[idx + 1], map)
    ELSE <<>>

\* The object `base` of extractMaterials (roughnessFactor is 0.9 = 9/10).
BaseMaterial(idx) ==
    [ name |-> << "Material", idx >>,
      pbrMetallicRoughness |->
          [ baseColorFactor |-> << 1, 1, 1, 1 >>, metallicFactor |-> 0,
            roughnessFactor |-> << 9, 10 >> ],
      doubleSided |-> TRUE,
      alphaMode |-> "OPAQUE" ]

\* { ...base, pbrMetallicRoughness: { ..., baseColorTexture } }
TexturedMaterial(idx, gltfTextureIndex) ==
    [ BaseMaterial(idx) EXCEPT !.pbrMetallicRoughness =
          @ @@ [ baseColorTexture |->
                     [ index |-> gltfTextureIndex, texCoord |-> 0 ] ] ]

RECURSIVE MaterialsAdded(_, _, _, _, _)
\* The loop of extractMaterials over the sorted material indices; acc holds
\* the builder and the arrays textured and untextured.
MaterialsAdded(acc, sorted, model, map, usage) ==
    IF sorted = <<>> THEN acc
    ELSE
      LET idx == Head(sorted)
          gltfTextureIndex == GltfTextureIndex(model, idx, map)
          b1 == IF idx \in usage.withoutUV
                THEN With(acc.builder, "materials", BaseMaterial(idx))
                ELSE acc.builder
          untextured == IF idx \in usage.withoutUV
                        THEN (idx :> IndexOfPush(acc.builder.materials))
                             @@ acc.untextured
                        ELSE acc.untextured
          b2 == IF idx \in usage.withUV
                THEN With(b1, "materials",
                          IF gltfTextureIndex # <<>>
                          THEN TexturedMaterial(idx, gltfTextureIndex[1])
                          ELSE BaseMaterial(idx))
                ELSE b1
          textured == IF idx \in usage.withUV
                      THEN (idx :> IndexOfPush(b1.materials)) @@ acc.textured
                      ELSE acc.textured
      IN  MaterialsAdded([ builder |-> b2, textured |-> textured,
                           untextured |-> untextured ],
                         Tail(sorted), model, map, usage)

\* computeMaterialUsage and extractMaterials: bmd.mat3 and the shapes'
\* materials and vertex layouts are read.
ExtractMaterials ==
    /\ cpc = "materials"
    /\ \E m \in Mat3Inputs,
          shapeList \in UNION { [1..n -> ShapeInputs] : n \in 0..MaxShapes } :
         LET model == [ bmd EXCEPT !.mat3 = m, !.shapes = shapeList ]
             usage == ComputeMaterialUsage(shapeList)
             usedMaterialIndices ==
                 { shapeList[i].materialIndex : i \in 1..Len(shapeList) }
             r == MaterialsAdded([ builder |-> Builder, textured |-> <<>>,
                                   untextured |-> <<>> ],
                                 SortedAscending(usedMaterialIndices),
                                 model, textureIndexToGLTF, usage)
         IN  /\ bmd' = model
             /\ BuilderBecomes(r.builder)
             /\ materialIndices' = [ textured |-> r.textured,
                                     untextured |-> r.untextured ]
    /\ cpc' = "meshes"
    /\ UNCHANGED << si, textureIndexToGLTF, samplerCache, meshIndices,
                    outFile, cresult, log >>
    /\ UNCHANGED nonConvVars

\* An optional vertex array of buildMesh: when it is defined its bytes go
\* into a buffer view and an accessor is added for them; the accessor's
\* index is Len(b.accessors).
WithAttribute(b, defined, byteLength, componentType, count, type, min, max, normalized, target) ==
    IF defined
    THEN With(WithBufferData(b, DataBytes(byteLength), << target >>),
              "accessors",
              AccessorOf(IndexOfPush(b.bufferViews), componentType, count,
                         type, min, max, normalized))
    ELSE b

\* buildMesh: the builder afterwards and the index returned, <<>> for null.
BuildMesh(b, vertexData, shape, lists) ==
    IF vertexData.positions = 0 \/ vertexData.indices = 0
    THEN [ builder |-> b, meshIndex |-> <<>> ]
    ELSE
      LET n == vertexData.positions
          b1 == WithAttribute(b, TRUE, 12 * n, FLOAT, n, "VEC3",
                              << << 0, 0, 0 >> >>, << << 1, 1, 1 >> >>, <<>>,
                              ARRAY_BUFFER)
          b2 == WithAttribute(b1, vertexData.normals, 12 * n, FLOAT, n,
                              "VEC3", <<>>, <<>>, <<>>, ARRAY_BUFFER)
          b3 == WithAttribute(b2, vertexData.texCoords0, 8 * n, FLOAT, n,
                              "VEC2", <<>>, <<>>, <<>>, ARRAY_BUFFER)
          b4 == WithAttribute(b3, vertexData.colorsU8, 4 * n, UNSIGNED_BYTE,
                              n, "VEC4", <<>>, <<>>, << TRUE >>, ARRAY_BUFFER)
          b5 == WithAttribute(b4, vertexData.skinned, 8 * n, UNSIGNED_SHORT,
                              n, "VEC4", <<>>, <<>>, <<>>, ARRAY_BUFFER)
          b6 == WithAttribute(b5, vertexData.skinned, 16 * n, FLOAT, n,
                              "VEC4", <<>>, <<>>, <<>>, ARRAY_BUFFER)
          b7 == WithAttribute(b6, TRUE, 2 * vertexData.indices,
                              UNSIGNED_SHORT, vertexData.indices, "SCALAR",
                              <<>>, <<>>, <<>>, ELEMENT_ARRAY_BUFFER)
          attributes ==
              [ POSITION |-> IndexOfPush(b.accessors) ]
              @@ (IF vertexData.normals
                  THEN [ NORMAL |-> IndexOfPush(b1.accessors) ] ELSE <<>>)
              @@ (IF vertexData.texCoords0
                  THEN [ TEXCOORD_0 |-> IndexOfPush(b2.accessors) ]
                  ELSE <<>>)
              @@ (IF vertexData.colorsU8
                  THEN [ COLOR_0 |-> IndexOfPush(b3.accessors) ] ELSE <<>>)
              @@ (IF vertexData.skinned
                  THEN [ JOINTS_0 |-> IndexOfPush(b4.accessors),
                         WEIGHTS_0 |-> IndexOfPush(b5.accessors) ]
                  ELSE <<>>)
          list == IF vertexData.texCoords0 THEN lists.textured
                  ELSE lists.untextured
          primitive ==
              [ attributes |-> attributes, mode |-> 4,
                indices |-> IndexOfPush(b6.accessors) ]
              @@ (IF /\ shape.materialIndex >= 0
                     /\ shape.materialIndex < ArrayLength(list)
                     /\ shape.materialIndex \in DOMAIN list
                  THEN [ material |-> list[shape.materialIndex] ]
                  ELSE <<>>)
          mesh == [ name |-> << "Mesh", shape.materialIndex >>,
                    primitives |-> << primitive >> ]
      IN  [ builder |-> With(b7, "meshes", mesh),
            meshIndex |-> << IndexOfPush(b7.meshes) >> ]

\* One turn of the loop of extractMeshes: shapes[i] is extracted and built.
\* An exception is caught and logged; a null mesh index is passed over.
ExtractMesh ==
    /\ cpc = "meshes"
    /\ si < Len(bmd.shapes)
    /\ LET shape == bmd.shapes[si + 1]
           r == BuildMesh(Builder, shape.vertexData, shape, materialIndices)
       IN  IF shape.vertexData.thrown
           THEN /\ ConvLogged("warn", "Failed to extract shape", si)
                /\ UNCHANGED meshIndices
                /\ UNCHANGED << bufferData, bufferViews, accessors, meshes,
                                nodes, skins, materials, images, textures,
                                samplers, scenes, currentBufferOffset >>
           ELSE /\ BuilderBecomes(r.builder)
                /\ meshIndices' = meshIndices \o r.meshIndex
                /\ UNCHANGED log
    /\ si' = si + 1
    /\ UNCHANGED << bmd, cpc, textureIndexToGLTF, samplerCache,
                    materialIndices, outFile, cresult >>
    /\ UNCHANGED nonConvVars

RECURSIVE WithJointNodes(_, _, _)
\* The loop of buildSkinAndJoints over the joints i..jointCount-1.
WithJointNodes(b, i, jointCount) ==
    IF i >= jointCount THEN b
    ELSE WithJointNodes(With(b, "nodes", [ name |-> << "Joint", i >> ]),
                        i + 1, jointCount)

\* buildSkinAndJoints: the builder afterwards, skinIndex and
\* skeletonRootIndex (<<>> for undefined).
BuildSkinAndJoints(b, jointCount) ==
    IF jointCount = 0
    THEN [ builder |-> b, skinIndex |-> <<>>, skeletonRootIndex |-> <<>> ]
    ELSE
      LET b1 == WithJointNodes(b, 0, jointCount)
          jointNodeIndices == [ i \in 1..jointCount |->
                                  Len(b.nodes) + i - 1 ]
          b2 == With(b1, "nodes", [ name |-> << "Skeleton" >>,
                                    children |-> jointNodeIndices ])
          b3 == WithBufferData(b2, Zeros(jointCount * 64), <<>>)
          b4 == With(b3, "accessors",
                     AccessorOf(IndexOfPush(b2.bufferViews), FLOAT,
                                jointCount, "MAT4", <<>>, <<>>, <<>>))
          b5 == With(b4, "skins",
                     [ inverseBindMatrices |-> IndexOfPush(b3.accessors),
                       joints |-> jointNodeIndices,
                       skeleton |-> IndexOfPush(b1.nodes) ])
      IN  [ builder |-> b5, skinIndex |-> << IndexOfPush(b4.skins) >>,
            skeletonRootIndex |-> << IndexOfPush(b1.nodes) >> ]

RECURSIVE WithMeshNodes(_, _, _, _)
\* The loop of convert over meshIndices[i..]: one node per mesh.
WithMeshNodes(b, i, indices, skinIndex) ==
    IF i >= Len(indices) THEN b
    ELSE WithMeshNodes(
             With(b, "nodes",
                  [ name |-> << "Shape", i >>, mesh |-> indices[i + 1] ]
                  @@ (IF skinIndex # <<>> THEN [ skin |-> skinIndex[1] ]
                      ELSE <<>>)),
             i + 1, indices, skinIndex)

\* The rest of convert once the loop over the shapes has ended: the skin
\* and the joints, the mesh nodes, the scene, buildGLB and writeFileSync,
\* which throws when the file cannot be written.
FinishConvert ==
    /\ cpc = "meshes"
    /\ si = Len(bmd.shapes)
    /\ \E jointCount \in { 0, 1 }, disk \in { "writable", "failing" } :
         LET s == BuildSkinAndJoints(Builder, jointCount)
             b1 == WithMeshNodes(s.builder, 0, meshIndices, s.skinIndex)
             meshNodes == [ i \in 1..Len(meshIndices) |->
                              Len(s.builder.nodes) + i - 1 ]
             sceneNodes == s.skeletonRootIndex \o meshNodes
             b2 == With(b1, "scenes", [ name |-> << "Scene" >>,
                                        nodes |-> sceneNodes ])
         IN  /\ bmd' = [ bmd EXCEPT !.joints = jointCount ]
             /\ BuilderBecomes(b2)
             /\ IF disk = "writable"
                THEN /\ outFile' = << [ json |-> BuildJSONDoc',
                                        bin |-> Concat(bufferData') ] >>
                     /\ ConvLogged("debug", "Successfully wrote GLB", 0)
                     /\ cpc' = "done"
                     /\ cresult' = "written"
                ELSE /\ ConvertFails
                     /\ UNCHANGED outFile
    /\ UNCHANGED << si, textureIndexToGLTF, samplerCache, materialIndices,
                    meshIndices >>
    /\ UNCHANGED nonConvVars

ConvertNext ==
    \/ ConvertStart
    \/ EmbedTexture
    \/ EndTextures
    \/ ExtractMaterials
    \/ ExtractMesh
    \/ FinishConvert

(***************************************************************************)
(* extractShapeVertices: the skinning of one matrix group.  A weight of    *)
(* the file is an integer number of units; a weight of the result is the   *)
(* fraction << numerator, denominator >>, the division itself being exact. *)
(***************************************************************************)
RECURSIVE ReadDRW1Chunk(_)
\* readDRW1Chunk: a joint entry and an envelope entry each give a matrix
\* definition; an entry of any other kind gives none.
ReadDRW1Chunk(entries) ==
    IF entries = <<>> THEN <<>>
    ELSE LET e == Head(entries)
             def == IF e.kind = 0
                    THEN << [ kind |-> 0, jointIndex |-> e.param ] >>
                    ELSE IF e.kind = 1
                    THEN << [ kind |-> 1, envelopeIndex |-> e.param ] >>
                    ELSE <<>>
         IN  def \o ReadDRW1Chunk(Tail(entries))

\* bmd.drw1: undefined, or read from these entries of the DRW1 chunk.  An
\* entry is a kind byte (0 for a joint, 1 for an envelope) and a 16-bit
\* parameter.
Drw1Inputs ==
    { [ defined |-> FALSE, entries |-> <<>> ],
      [ defined |-> TRUE,
        entries |-> << [ kind |-> 0, param |-> 2 ],
                       [ kind |-> 1, param |-> 0 ] >> ],
      [ defined |-> TRUE,
        entries |-> << [ kind |-> 1, param |-> 0 ],
                       [ kind |-> 0, param |-> 1 ] >> ],
      [ defined |-> TRUE,
        entries |-> << [ kind |-> 2, param |-> 0 ],
                       [ kind |-> 0, param |-> 2 ] >> ],
      [ defined |-> TRUE, entries |-> << [ kind |-> 1, param |-> 1 ] >> ] }

\* Bone k (from 1) of an envelope of the input is bound to joint k.
WeightedBones(weights) ==
    [ k \in 1..Len(weights) |-> [ jointIndex |-> k, weight |-> weights[k] ] ]
\* The envelopes of up to MaxBones bones of 0, 1 or 2 units of weight.
Envelopes ==
    { WeightedBones(w) :
        w \in UNION { [1..n -> { 0, 1, 2 }] : n \in 0..MaxBones } }

\* bmd.evp1: undefined, or one envelope.
Evp1Inputs ==
    { [ defined |-> FALSE, envelopes |-> <<>> ] }
    \cup { [ defined |-> TRUE, envelopes |-> << env >> ] : env \in Envelopes }

RECURSIVE InsertDescending(_, _)
\* bone goes after every bone of the sorted list that is not lighter.
InsertDescending(sorted, bone) ==
    IF sorted = <<>> THEN << bone >>
    ELSE IF Head(sorted).weight >= bone.weight
         THEN << Head(sorted) >> \o InsertDescending(Tail(sorted), bone)
         ELSE << bone >> \o sorted

RECURSIVE SortDescending(_)
\* [...weightedBones].sort((a, b) => b.weight - a.weight): a stable sort,
\* heaviest first.
SortDescending(bones) ==
    IF bones = <<>> THEN <<>>
    ELSE InsertDescending(SortDescending(SubSeq(bones, 1, Len(bones) - 1)),
                          bones[Len(bones)])

\* jointIndex >>> 0: the index is a Uint16 read by readDRW1Chunk, which the
\* shift leaves as it is.
ToUint32(n) == n

\* weightsForGroup = [1, 0, 0, 0]
UnitWeights == << << 1, 1 >>, << 0, 1 >>, << 0, 1 >>, << 0, 1 >> >>

\* const sum = weightsForGroup.reduce(...); if (sum > 0) each weight is
\* divided by sum, else the weights become [1, 0, 0, 0].  jointsForGroup
\* is not assigned in either branch.
Normalized(jointsForGroup, weightsForGroup) ==
    LET sum == SumSeq(weightsForGroup)
    IN  [ joints |-> jointsForGroup,
          weights |-> IF sum > 0
                      THEN [ k \in 1..4 |-> << weightsForGroup[k], sum >> ]
                      ELSE UnitWeights ]

\* A mutation of the joint branch: the last entry of the table is used.
FirstUse_Last(useMtxTable) == useMtxTable[Len(useMtxTable)]

\* const matIndex = mtxGroup.useMtxTable[0]
FirstUse(useMtxTable) == useMtxTable[1]

\* A mutation of the envelope branch: the bones are taken in file order.
Kept_Unsorted(weightedBones) ==
    SubSeq(weightedBones, 1,
           IF Len(weightedBones) < 4 THEN Len(weightedBones) ELSE 4)

\* const sorted = [...env.weightedBones].sort(...).slice(0, 4)
Kept(weightedBones) ==
    SubSeq(SortDescending(weightedBones), 1,
           IF Len(weightedBones) < 4 THEN Len(weightedBones) ELSE 4)

\* The skinning of a matrix group: jointsForGroup and weightsForGroup
\* after the block that resolves it.
ResolveSkin(useMtxTable, drw1, evp1) ==
    LET default == [ joints |-> << 0, 0, 0, 0 >>, weights |-> UnitWeights ]
        matrixDefinitions == ReadDRW1Chunk(drw1.entries)
        matIndex == FirstUse(useMtxTable)
        def == matrixDefinitions[matIndex + 1]
        env == evp1.envelopes[def.envelopeIndex + 1]
        sorted == Kept(env)
    IN  IF ~(Len(useMtxTable) > 0 /\ drw1.defined) THEN default
        ELSE IF ~(matIndex < Len(matrixDefinitions)) THEN default
        ELSE IF def.kind = 0
        THEN [ joints |-> << ToUint32(def.jointIndex), 0, 0, 0 >>,
               weights |-> UnitWeights ]
        ELSE IF ~evp1.defined THEN default
        ELSE IF ~(def.envelopeIndex < Len(evp1.envelopes)) THEN default
        ELSE IF ~(Len(env) > 0) THEN default
        ELSE Normalized(
                 [ k \in 1..4 |-> IF k <= Len(sorted)
                                  THEN sorted[k].jointIndex ELSE 0 ],
                 [ k \in 1..4 |-> IF k <= Len(sorted)
                                  THEN sorted[k].weight ELSE 0 ])

SkinInit ==
    /\ BuilderInit /\ ParseIdle /\ BatchIdle /\ ConvIdle /\ LookupIdle
    /\ skin \in { << [ useMtxTable |-> t, drw1 |-> d, evp1 |-> e ] >> :
                    t \in { <<>>, <<0>>, <<1>>, <<2>>, <<0, 1>>, <<1, 0>>,
                            <<1, 2>> },
                    d \in Drw1Inputs, e \in Evp1Inputs }
    /\ binding = <<>>
    /\ shapeArg = <<>> /\ arrays = <<>> /\ returned = <<>>

\* The block of extractShapeVertices that resolves the skinning of a group.
ResolveSkinning ==
    /\ binding = <<>>
    /\ skin # <<>>
    /\ binding' = << ResolveSkin(skin[1].useMtxTable, skin[1].drw1,
                                 skin[1].evp1) >>
    /\ UNCHANGED << skin, shapeArg, arrays, returned >>
    /\ UNCHANGED nonSkinVars

SkinSpec == SkinInit /\ [][ResolveSkinning]_vars

(***************************************************************************)
(* J3DToGLBConverter.extractShapeVertices                                  *)
(***************************************************************************)
\* The vertex layouts of the input: the stride of vertexBufferStrides[0]
\* and the byte offsets of the attributes, -1 for an attribute the layout
\* does not have (undefined).
Layouts ==
    { [ stride |-> 0, POS |-> 0, NRM |-> 12, TEX0 |-> 24, CLR0 |-> 32 ],
      [ stride |-> 36, POS |-> 0, NRM |-> 12, TEX0 |-> 24, CLR0 |-> 32 ],
      [ stride |-> 24, POS |-> -1, NRM |-> 0, TEX0 |-> 12, CLR0 |-> 20 ] }

\* The 16-bit indices of a matrix group, counting the group's vertices
\* from 0, and its draws.
IndexInputs ==
    { [ indexData |-> << 0, 0, 0 >>,
        draws |-> << [ indexOffset |-> 0, indexCount |-> 3 ] >> ],
      [ indexData |-> << 1, 0, 1, 0, 0, 0, 1 >>,
        draws |-> << [ indexOffset |-> 0, indexCount |-> 3 ],
                     [ indexOffset |-> 3, indexCount |-> 5 ] >> ] }

\* The matrix groups of the input under a layout: the declared vertex
\* count, a vertex buffer that is 24 bytes longer than the declared
\* vertices need, or as long, or 12 or 24 bytes shorter, and the indices.
\* Group g uses the DRW1 definition g - 1.
MtxGroups(layout) ==
    { [ totalVertexCount |-> n,
        vbByteLength |-> IF n * layout.stride >= cut
                         THEN n * layout.stride - cut ELSE 0,
        indexData |-> ix.indexData, draws |-> ix.draws ] :
        n \in 1..MaxVertices, cut \in { -24, 0, 12, 24 }, ix \in IndexInputs }
    \cup { [ totalVertexCount |-> 0, vbByteLength |-> 0,
             indexData |-> <<>>, draws |-> <<>> ] }

\* What the vertex buffer of group g holds for its vertex v (from 0):
\* three floats of position, three of normal, two of texture coordinate
\* and four colour bytes.  The normals are whole vectors of whole length,
\* the zero vector among them.
VertexOf(g, v) ==
    LET n == << << 0, 0, 0 >>, << 1, -2, 2 >>, << 0, 3, -4 >> >>[
                 ((g + v) % 3) + 1]
    IN  [ position |-> << g, v, g - v >>,
          normal |-> [ k \in 1..3 |-> (v + 1) * n[k] ],
          texCoord |-> << g, v >>,
          color |-> << g, v, 0, 255 >> ]

\* The accumulators of extractShapeVertices before the first group.  group
\* is the number of groups processed; outOfRange tells whether a read went
\* past the end of a vertex buffer; an infinite bound is the empty tuple.
NoVertices ==
    [ group |-> 0, allPositions |-> <<>>, allNormals |-> <<>>,
      allTexCoords |-> <<>>, allColors |-> <<>>, allIndices |-> <<>>,
      allJoints |-> <<>>, allWeights |-> <<>>, currentVertexOffset |-> 0,
      posMin |-> <<>>, posMax |-> <<>>, outOfRange |-> FALSE ]

\* readSHP1Chunk runs the vertex loader on the display list of group j with
\* firstVertexId set to the vertices the groups before it have declared:
\* the indices of the group's index data count its vertices from there.
RunVertices(groups) ==
    [ j \in 1..Len(groups) |->
        LET firstVertexId ==
                SumSeq([ k \in 1..(j - 1) |-> groups[k].totalVertexCount ])
        IN  [ groups[j] EXCEPT
                !.indexData = [ i \in 1..Len(@) |-> @[i] + firstVertexId ] ] ]

VertexInit ==
    /\ BuilderInit /\ ParseIdle /\ BatchIdle /\ ConvIdle /\ LookupIdle
    /\ skin = <<>> /\ binding = <<>>
    /\ \E layout \in Layouts :
         shapeArg \in { << [ layout |-> layout,
                          mtxGroups |-> RunVertices(groups),
                          drw1 |-> [ defined |-> TRUE,
                                     entries |-> << [ kind |-> 0, param |-> 2 ],
                                                    [ kind |-> 1, param |-> 0 ] >> ],
                          evp1 |-> [ defined |-> TRUE,
                                     envelopes |->
                                         << WeightedBones(<< 1, 2 >>) >> ] ] >> :
                     groups \in UNION { [1..n -> MtxGroups(layout)] :
                                          n \in 0..MaxGroups } }
    /\ arrays = NoVertices
    /\ returned = <<>>

\* Math.min and Math.max
Least(S) == CHOOSE m \in S : \A x \in S : m <= x
Greatest(S) == CHOOSE m \in S : \A x \in S : m >= x

SafeVertexCount_Declared(stride, totalVertexCount, vbByteLength) ==
    IF stride > 0 THEN totalVertexCount ELSE 0

\* safeVertexCount
SafeVertexCount(stride, totalVertexCount, vbByteLength) ==
    IF stride > 0
    THEN Least({ totalVertexCount, vbByteLength \div stride })
    ELSE 0

\* computeFitCount
ComputeFitCount(bytesNeeded, attrOffs, stride, vbByteLength, safeVertexCount) ==
    IF stride <= 0 \/ attrOffs = -1 THEN 0
    ELSE IF attrOffs + bytesNeeded > vbByteLength THEN 0
    ELSE Least({ safeVertexCount,
                 ((vbByteLength - attrOffs - bytesNeeded) \div stride) + 1 })

DrawIndices_Unchecked(draw, indexBuffer, groupVertexCount, currentVertexOffset) ==
    LET maxReadable == Greatest({ 0, Len(indexBuffer) - draw.indexOffset })
        count == Least({ draw.indexCount, maxReadable })
    IN  [ i \in 1..(3 * (count \div 3)) |->
            indexBuffer[draw.indexOffset + i] + currentVertexOffset ]

\* The indices one draw adds: its complete triangles whose three indices
\* are all below groupVertexCount, moved by currentVertexOffset.
DrawIndices(draw, indexBuffer, groupVertexCount, currentVertexOffset) ==
    LET maxReadable == Greatest({ 0, Len(indexBuffer) - draw.indexOffset })
        count == Least({ draw.indexCount, maxReadable })
        completeTriangleCount == count \div 3
        idx(tri, k) == indexBuffer[draw.indexOffset + tri * 3 + k + 1]
    IN  Concat([ t \in 1..completeTriangleCount |->
                   IF \A k \in 0..2 : idx(t - 1, k) < groupVertexCount
                   THEN [ k \in 1..3 |->
                            idx(t - 1, k - 1) + currentVertexOffset ]
                   ELSE <<>> ])

PushedPerVertex_Once(groupVertexCount, forGroup) ==
    IF groupVertexCount > 0 THEN << forGroup >> ELSE <<>>

\* allJoints.push(...) and allWeights.push(...) in the loop over the
\* vertices of a group: the group's four joints, or four weights, once for
\* every position.
PushedPerVertex(groupVertexCount, forGroup) ==
    [ v \in 1..groupVertexCount |-> forGroup ]

\* One turn of the loop over shape.mtxGroups.
ProcessGroup ==
    /\ shapeArg # <<>>
    /\ returned = <<>>
    /\ arrays.group < Len(shapeArg[1].mtxGroups)
    /\ LET g == arrays.group + 1
           mtxGroup == shapeArg[1].mtxGroups[g]
           layout == shapeArg[1].layout
           stride == layout.stride
           vbByteLength == mtxGroup.vbByteLength
           safeVertexCount ==
               SafeVertexCount(stride, mtxGroup.totalVertexCount, vbByteLength)
           fit(bytesNeeded, attrOffs) ==
               ComputeFitCount(bytesNeeded, attrOffs, stride, vbByteLength,
                               safeVertexCount)
           resolved == ResolveSkin(<< g - 1 >>, shapeArg[1].drw1, shapeArg[1].evp1)
           groupVertexCount == fit(12, layout.POS)
           read(count) == Least({ count, groupVertexCount })
           nrmCount == read(fit(12, layout.NRM))
           texCount == read(fit(8, layout.TEX0))
           clrCount == read(fit(4, layout.CLR0))
           past(count, bytesNeeded, attrOffs) ==
               count > 0
               /\ (count - 1) * stride + attrOffs + bytesNeeded > vbByteLength
           positions ==
               [ v \in 1..groupVertexCount |-> VertexOf(g, v - 1).position ]
           coordinates(k) ==
               { p[k] : p \in { positions[v] : v \in 1..groupVertexCount } }
       IN  arrays' =
             [ group |-> g,
               allPositions |-> arrays.allPositions \o positions,
               allNormals |-> arrays.allNormals \o
                   [ v \in 1..nrmCount |-> VertexOf(g, v - 1).normal ],
               allTexCoords |-> arrays.allTexCoords \o
                   [ v \in 1..texCount |-> VertexOf(g, v - 1).texCoord ],
               allColors |-> arrays.allColors \o
                   [ v \in 1..clrCount |-> VertexOf(g, v - 1).color ],
               allIndices |-> arrays.allIndices \o
                   Concat([ d \in 1..Len(mtxGroup.draws) |->
                              DrawIndices(mtxGroup.draws[d], mtxGroup.indexData,
                                          groupVertexCount,
                                          arrays.currentVertexOffset) ]),
               allJoints |-> arrays.allJoints \o
                   PushedPerVertex(groupVertexCount, resolved.joints),
               allWeights |-> arrays.allWeights \o
                   PushedPerVertex(groupVertexCount, resolved.weights),
               currentVertexOffset |->
                   IF stride > 0 /\ layout.POS # -1
                   THEN arrays.currentVertexOffset + groupVertexCount
                   ELSE arrays.currentVertexOffset,
               posMin |->
                   IF groupVertexCount = 0 THEN arrays.posMin
                   ELSE [ k \in 1..3 |->
                            Least(coordinates(k) \cup
                                  (IF arrays.posMin = <<>> THEN {}
                                   ELSE { arrays.posMin[k] })) ],
               posMax |->
                   IF groupVertexCount = 0 THEN arrays.posMax
                   ELSE [ k \in 1..3 |->
                            Greatest(coordinates(k) \cup
                                     (IF arrays.posMax = <<>> THEN {}
                                      ELSE { arrays.posMax[k] })) ],
               outOfRange |->
                   \/ arrays.outOfRange
                   \/ past(groupVertexCount, 12, layout.POS)
                   \/ past(nrmCount, 12, layout.NRM)
                   \/ past(texCount, 8, layout.TEX0)
                   \/ past(clrCount, 4, layout.CLR0) ]
    /\ UNCHANGED << shapeArg, returned, skin, binding >>
    /\ UNCHANGED nonSkinVars

\* The whole square root of a square.
Sqrt(n) == CHOOSE r \in 0..n : r * r = n

NormalLength_One(normal) == 1

\* len = Math.sqrt(x*x + y*y + z*z) || 1
NormalLength(normal) ==
    LET len == Sqrt(normal[1] * normal[1] + normal[2] * normal[2]
                    + normal[3] * normal[3])
    IN  IF len = 0 THEN 1 ELSE len

\* The statements after the loop: the normals are rescaled and the arrays
\* returned.  A rescaled normal is the vector [x, y, z] over the divisor
\* len; an array that comes back undefined is the empty one.
ReturnAttributes ==
    /\ shapeArg # <<>>
    /\ returned = <<>>
    /\ arrays.group = Len(shapeArg[1].mtxGroups)
    /\ returned' =
         << [ positions |-> arrays.allPositions,
              normals |-> [ i \in 1..Len(arrays.allNormals) |->
                              [ vector |-> arrays.allNormals[i],
                                len |-> NormalLength(arrays.allNormals[i]) ] ],
              texCoords0 |-> arrays.allTexCoords,
              colorsU8 |-> arrays.allColors,
              indices |-> [ i \in 1..Len(arrays.allIndices) |->
                              arrays.allIndices[i] % 65536 ],
              posMin |-> arrays.posMin,
              posMax |-> arrays.posMax,
              joints |-> [ i \in 1..Len(arrays.allJoints) |->
                             [ k \in 1..4 |-> arrays.allJoints[i][k] % 65536 ] ],
              weights |-> arrays.allWeights ] >>
    /\ UNCHANGED << shapeArg, arrays, skin, binding >>
    /\ UNCHANGED nonSkinVars

VertexNext == ProcessGroup \/ ReturnAttributes

VertexSpec == VertexInit /\ [][VertexNext]_vars

(***************************************************************************)
(* The builder under any sequence of calls.                                *)
(***************************************************************************)
Init ==
    BuilderInit /\ ParseIdle /\ BatchIdle /\ ConvIdle /\ SkinIdle /\ LookupIdle
Next ==
    \/ AddBufferData
    \/ AddAccessor
    \/ AddMesh
    \/ AddNode
    \/ AddSkin
    \/ AddMaterial
    \/ AddImagePNG
    \/ AddSampler
    \/ AddTexture
    \/ AddScene
    \/ BuildJSON
    \/ BuildGLB
Spec == Init /\ [][Next]_vars

(***************************************************************************)
(* The export of a batch of object archives.                               *)
(***************************************************************************)
BatchSpec == BatchInit /\ [][BatchNext]_vars

(***************************************************************************)
(* The conversion of one model.                                            *)
(***************************************************************************)
ConvertSpec == ConvertInit /\ [][ConvertNext]_vars

(***************************************************************************)
(* Properties.  The arithmetic they use is written out again here, apart   *)
(* from the operators that model the code.                                 *)
(***************************************************************************)
\* The least multiple of 4 that is not below n.
RoundUp4(n) == CHOOSE m \in n..(n + 3) : m % 4 = 0

RECURSIVE SumAligned(_, _)
\* The sum of the 4-aligned byte lengths of the first n buffer views.
SumAligned(views, n) ==
    IF n = 0 THEN 0
    ELSE SumAligned(views, n - 1) + RoundUp4(views[n].byteLength)

\* The accumulated binary blob and the JSON text of the current builder state.
Blob == Concat(bufferData)
JsonBytes == StringifyGLTF(BuildJSONDoc)

BuilderLists ==
    << bufferViews, accessors, meshes, nodes, skins, materials, images,
       textures, samplers, scenes >>

\* C1: the buffer buildGLB returns starts with a 12-byte header: bytes 0-3
\* are "glTF" (0x46546C67 little-endian), bytes 4-7 are 2, bytes 8-11 are the
\* byte length of the buffer, which is 12 + 8 + aligned JSON length, plus
\* 8 + aligned blob length when the blob is not empty.
C1_GLBHeader ==
    call.op = "buildGLB" =>
        /\ Len(glb) >= 12
        /\ SubSeq(glb, 1, 4) = << 103, 108, 84, 70 >>
        /\ ReadU32LE(glb, 0) = 1179937895
        /\ ReadU32LE(glb, 4) = 2
        /\ ReadU32LE(glb, 8) = Len(glb)
        /\ Len(glb) = 12 + 8 + RoundUp4(Len(JsonBytes))
                      + (IF Len(Blob) > 0 THEN 8 + RoundUp4(Len(Blob)) ELSE 0)

\* A GLB built from a non-empty blob and a JSON text that needs padding.
C1_Witness ==
    /\ call.op = "buildGLB"
    /\ Len(Blob) > 0
    /\ Len(bufferViews) >= 2
    /\ Len(JsonBytes) % 4 # 0

\* C2: after the header comes the JSON chunk (length field = JSON length
\* rounded up to a multiple of 4, type 0x4E4F534A, the JSON bytes padded
\* with 0x20); a BIN chunk (length field = aligned blob length, type
\* 0x004E4942, the blob padded with zeros) follows exactly when the blob is
\* not empty, and otherwise the buffer ends after the JSON chunk.
C2_GLBChunks ==
    call.op = "buildGLB" =>
        LET jl == Len(JsonBytes)
            ja == RoundUp4(jl)
            bl == Len(Blob)
            ba == RoundUp4(bl)
        IN  /\ Len(glb) >= 20 + ja
            /\ ReadU32LE(glb, 12) = ja
            /\ ReadU32LE(glb, 16) = 1313821514
            /\ SubSeq(glb, 21, 20 + jl) = JsonBytes
            /\ \A i \in (jl + 1)..ja : glb[20 + i] = 32
            /\ IF bl > 0
               THEN /\ Len(glb) = 20 + ja + 8 + ba
                    /\ ReadU32LE(glb, 20 + ja) = ba
                    /\ ReadU32LE(glb, 24 + ja) = 5130562
                    /\ SubSeq(glb, 29 + ja, 28 + ja + bl) = Blob
                    /\ \A i \in (bl + 1)..ba : glb[28 + ja + i] = 0
               ELSE Len(glb) = 12 + 8 + ja

\* A GLB built after a push of no bytes: the blob is empty although a buffer
\* view exists, and the JSON text needs padding.
C2_Witness ==
    /\ call.op = "buildGLB"
    /\ Len(bufferViews) > 0
    /\ Len(Blob) = 0
    /\ Len(JsonBytes) % 4 # 0

\* C3: every buffer view's byteOffset is a multiple of 4.
C3_OffsetsAligned ==
    \A i \in DOMAIN bufferViews : bufferViews[i].byteOffset % 4 = 0

\* A view pushed by addImagePNG after data whose length is no multiple of 4.
C3_Witness ==
    /\ call.op = "addImagePNG"
    /\ Len(bufferViews) >= 2
    /\ bufferViews[Len(bufferViews) - 1].byteLength % 4 # 0
    /\ bufferViews[Len(bufferViews)].byteOffset > 0

\* C4: a view's byteLength is the unpadded length of the data pushed, its
\* byteOffset the sum of the aligned lengths of the earlier pushes; each push
\* grows the blob by the aligned length, the padding being zero bytes;
\* addBufferData returns the new view's index; the byte ranges of different
\* views do not overlap.
C4_AddBufferData ==
    /\ Len(bufferData) = Len(bufferViews)
    /\ \A i \in DOMAIN bufferViews :
        LET v == bufferViews[i] IN
        /\ v.byteOffset = SumAligned(bufferViews, i - 1)
        /\ Len(bufferData[i]) = RoundUp4(v.byteLength)
        /\ SubSeq(bufferData[i], 1, v.byteLength) = DataBytes(v.byteLength)
        /\ \A k \in (v.byteLength + 1)..Len(bufferData[i]) :
               bufferData[i][k] = 0
    /\ Len(Blob) = SumAligned(bufferViews, Len(bufferViews))
    /\ currentBufferOffset = Len(Blob)
    /\ call.op \in { "addBufferData", "addImagePNG" } =>
           bufferViews[Len(bufferViews)].byteLength = call.len
    /\ call.op = "addBufferData" => call.returned = Len(bufferViews) - 1
    /\ \A i, j \in DOMAIN bufferViews :
           i < j => bufferViews[i].byteOffset + bufferViews[i].byteLength
                    <= bufferViews[j].byteOffset

\* A third push after two pushes that needed padding.
C4_Witness ==
    /\ call.op = "addBufferData"
    /\ Len(bufferViews) = 3
    /\ bufferViews[1].byteLength % 4 # 0
    /\ bufferViews[2].byteLength % 4 # 0
    /\ call.len > 0

\* The place in BuilderLists of the list an add* operation appends to.
ListOf(op) ==
    CASE op = "addBufferData" -> 1
      [] op = "addAccessor" -> 2
      [] op = "addMesh" -> 3
      [] op = "addNode" -> 4
      [] op = "addSkin" -> 5
      [] op = "addMaterial" -> 6
      [] op = "addImagePNG" -> 7
      [] op = "addTexture" -> 8
      [] op = "addSampler" -> 9
      [] op = "addScene" -> 10

AddOps ==
    { "addBufferData", "addAccessor", "addMesh", "addNode", "addSkin",
      "addMaterial", "addImagePNG", "addSampler", "addTexture", "addScene" }

\* C5: every add* operation returns the number of entries its list held
\* before the call; no step removes, reorders or replaces an entry of any
\* list; the document buildJSON returns holds the lists as they are.
C5_StableIndices ==
    [][ /\ \A i \in 1..Len(BuilderLists) :
               /\ Len(BuilderLists[i]) <= Len(BuilderLists'[i])
               /\ SubSeq(BuilderLists'[i], 1, Len(BuilderLists[i]))
                    = BuilderLists[i]
        /\ call'.op \in AddOps =>
               /\ call'.returned = Len(BuilderLists[ListOf(call'.op)])
               /\ Len(BuilderLists'[ListOf(call'.op)])
                      = Len(BuilderLists[ListOf(call'.op)]) + 1
        /\ call'.op = "buildJSON" =>
               /\ \A k \in DOMAIN json' \ { "asset", "scene", "buffers" } :
                      json'[k] =
                          CASE k = "scenes" -> scenes
                            [] k = "nodes" -> nodes
                            [] k = "meshes" -> meshes
                            [] k = "materials" -> materials
                            [] k = "images" -> images
                            [] k = "textures" -> textures
                            [] k = "samplers" -> samplers
                            [] k = "skins" -> skins
                            [] k = "bufferViews" -> bufferViews
                            [] k = "accessors" -> accessors
      ]_vars

\* A document built from a builder that holds two meshes and an image.
C5_Witness ==
    /\ call.op = "buildJSON"
    /\ Len(meshes) = 2
    /\ Len(images) = 1
    /\ json.meshes = meshes

ArrayKeys ==
    { "scenes", "nodes", "meshes", "materials", "images", "textures",
      "samplers", "skins", "bufferViews", "accessors", "buffers" }

\* C6: the document buildJSON returns has a top-level array only when that
\* array has at least one element.
C6_NoEmptyArrays ==
    call.op = "buildJSON" =>
        \A k \in DOMAIN json \cap ArrayKeys : Len(json[k]) > 0

\* A document with some arrays present and the others left out.
C6_Witness ==
    /\ call.op = "buildJSON"
    /\ "meshes" \in DOMAIN json
    /\ "bufferViews" \in DOMAIN json
    /\ "accessors" \notin DOMAIN json
    /\ "nodes" \notin DOMAIN json

\* C7: when the builder holds a buffer view, buildJSON declares exactly one
\* buffer, whose byteLength is the sum of the aligned lengths of the pushes,
\* and every view ends within it.
C7_OneBuffer ==
    (call.op = "buildJSON" /\ Len(bufferViews) > 0) =>
        /\ "buffers" \in DOMAIN json
        /\ Len(json.buffers) = 1
        /\ json.buffers[1].byteLength
               = SumAligned(bufferViews, Len(bufferViews))
        /\ \A i \in DOMAIN bufferViews :
               /\ bufferViews[i].buffer = 0
               /\ bufferViews[i].byteOffset + bufferViews[i].byteLength
                      <= json.buffers[1].byteLength

\* C8: buildJSON and buildGLB leave the lists, the blob and the buffer offset
\* as they are, and a buildGLB that follows a buildGLB returns the same bytes.
C8_BuildIdempotent ==
    [][ /\ call'.op \in { "buildJSON", "buildGLB" } =>
               UNCHANGED << BuilderLists, bufferData, currentBufferOffset >>
        /\ (call'.op = "buildGLB" /\ call'.repeated) => glb' = glb
      ]_vars

\* A second buildGLB in a row, on a builder with a blob.
C8_Witness ==
    /\ call.op = "buildGLB"
    /\ call.repeated
    /\ Len(Blob) > 0
    /\ Len(meshes) > 0

\* C9: parse returns a model only for the magics 'J3D2bmd2', 'J3D2bmd3',
\* 'J3D2bdl4'; for any other magic it ends with an error, no chunk having
\* been read or decoded.
C9_MagicChecked ==
    /\ result = "model" => magic \in { "J3D2bmd2", "J3D2bmd3", "J3D2bdl4" }
    /\ magic \notin { "J3D2bmd2", "J3D2bmd3", "J3D2bdl4" } =>
           /\ tags = <<>>
           /\ decoded = <<>>
           /\ shapes = <<>>
           /\ pc \in { "parse", "done" }
           /\ pc = "done" => result = "error"

\* A parse of a buffer with another magic has ended.
C9_Witness ==
    /\ magic = "J3D1bmd1"
    /\ pc = "done"
    /\ result = "error"

\* C10: parse returns a model only if the six tags read first are INF1, VTX1,
\* EVP1, DRW1, JNT1, SHP1 in this order; at the first tag that differs the
\* parse has ended with an error, and only the chunks before it are decoded.
C10_MandatoryOrder ==
    LET order == << "INF1", "VTX1", "EVP1", "DRW1", "JNT1", "SHP1" >>
    IN  /\ result = "model" =>
               /\ Len(tags) >= 6
               /\ SubSeq(tags, 1, 6) = order
        /\ \A k \in 1..6 :
               (/\ k <= Len(tags)
                /\ tags[k] # order[k]
                /\ \A j \in 1..(k - 1) : tags[j] = order[j])
               => /\ pc = "done"
                  /\ result = "error"
                  /\ Len(tags) = k
                  /\ decoded = SubSeq(order, 1, k - 1)

\* A file whose third chunk is DRW1 instead of EVP1: the parse has ended
\* with INF1 and VTX1 decoded.
C10_Witness ==
    /\ Len(tags) = 3
    /\ tags[3] = "DRW1"
    /\ decoded = << "INF1", "VTX1" >>
    /\ result = "error"


\* The places of the hierarchy stream that hold a shape node naming shape s
\* (counted from 0).
ShapeNodesOf(s) ==
    { i \in DOMAIN hierarchy :
        hierarchy[i].type = 18 /\ hierarchy[i].value = s }

\* The places before place i that hold a material node.
MaterialNodesBefore(i) ==
    { k \in 1..(i - 1) : hierarchy[k].type = 17 }

\* C11: after a successful parse every shape is named by exactly one shape
\* node (type 0x12), a material node (type 0x11) precedes that node, and the
\* shape's material index is the value of the last material node before it.
\* So a parse whose stream has a shape node before any material node, two
\* shape nodes for one shape, or no shape node for some shape, has not
\* returned a model; a parse that has ended has returned a model or failed.
C11_MaterialAssignedOnce ==
    /\ pc = "done" => result \in { "model", "error" }
    /\ result = "model" =>
           /\ hierarchy # <<>>
           /\ hierarchy[Len(hierarchy)].type = 0
           /\ \A i \in DOMAIN hierarchy :
                  hierarchy[i].type = 18 =>
                      /\ hierarchy[i].value + 1 \in DOMAIN shapes
                      /\ MaterialNodesBefore(i) # {}
           /\ \A s \in DOMAIN shapes :
                  /\ Cardinality(ShapeNodesOf(s - 1)) = 1
                  /\ \A i \in ShapeNodesOf(s - 1) :
                         /\ MaterialNodesBefore(i) # {}
                         /\ shapes[s] =
                                hierarchy[Greatest(MaterialNodesBefore(i))].value

\* A model whose shape node comes after two material nodes of different
\* values: the shape has the value of the second.
C11_Witness ==
    /\ result = "model"
    /\ Len(shapes) = 1
    /\ Len(hierarchy) = 4
    /\ hierarchy[1].type = 17
    /\ hierarchy[2].type = 17
    /\ hierarchy[1].value # hierarchy[2].value
    /\ hierarchy[3].type = 18

\* C12: when the export of a batch has ended, every good model file of every
\* archive that loads has been converted and written, whatever failed
\* before it, and every model file that failed has an error line in the log.
C12_FailureIsolated ==
    bpc = "done" =>
        \A a \in DOMAIN archives :
            \A f \in DOMAIN archives[a].files :
                /\ archives[a].files[f] = "good" => << a, f >> \in written
                /\ archives[a].files[f] \in { "unparsable", "unconvertible" }
                       => \E i \in DOMAIN log :
                              /\ log[i].level = "error"
                              /\ log[i].archive = a
                              /\ log[i].file = f

\* What extractMeshes is to do with shape i (from 0) of the model read.
Skipped(i) ==
    LET vertexData == bmd.shapes[i + 1].vertexData
    IN  vertexData.thrown \/ vertexData.positions = 0
        \/ vertexData.indices = 0
KeptShapes == { i \in 0..(Len(bmd.shapes) - 1) : ~Skipped(i) }
\* The log has a line about shape i.
ShapeLogged(i) ==
    \E k \in 1..Len(log) :
        log[k].message = "Failed to extract shape" /\ log[k].index = i

\* C13: in a conversion that has written its file, every shape that throws
\* or ends with no position or no index has a log line and no mesh, the
\* meshes are those of the other shapes in shape order, each has its node,
\* and the scene is in the file written.
C13_SkippedShapesLogged ==
    cresult = "written" =>
        /\ \A i \in 0..(Len(bmd.shapes) - 1) : Skipped(i) => ShapeLogged(i)
        /\ Len(meshes) = Cardinality(KeptShapes)
        /\ \A k \in 1..Len(meshes) :
               meshes[k].name =
                   << "Mesh",
                      bmd.shapes[SortedAscending(KeptShapes)[k] + 1]
                          .materialIndex >>
        /\ Len(meshIndices) = Len(meshes)
        /\ Len(scenes) = 1
        /\ outFile # <<>>

\* Texture t (from 0) of the model read has data that convertToPNG rejects.
DecodeFailed(t) ==
    /\ t >= 0 /\ t < Len(bmd.textures)
    /\ bmd.textures[t + 1].data /\ ~bmd.textures[t + 1].decodable
\* The texture named by the first non-negative slot of material idx, -1
\* when the model has no such slot.
FirstNamedTexture(idx) ==
    IF bmd.mat3.defined /\ idx < Len(bmd.mat3.materialEntries)
    THEN LET slots == bmd.mat3.materialEntries[idx + 1]
             named == { j \in 1..Len(slots) : slots[j] >= 0 }
         IN  IF named = {} THEN -1
             ELSE slots[CHOOSE j \in named : \A k \in named : j <= k]
    ELSE -1
\* The material built for the shapes of material idx that have a TEX0 offset.
TexturedMaterialOf(idx) == materials[materialIndices.textured[idx] + 1]
HasBaseColorTexture(material) ==
    "baseColorTexture" \in DOMAIN material.pbrMetallicRoughness

\* C14: once the materials are built, a texture whose decoding failed has no
\* image and no texture, every texture that decodes has both, the conversion
\* has gone on, and a material whose first non-negative slot names a failed
\* texture has no baseColorTexture.
C14_FailedTextureOmitted ==
    cpc \in { "meshes", "done" } =>
        /\ \A t \in 0..(Len(bmd.textures) - 1) :
               DecodeFailed(t) => t \notin DOMAIN textureIndexToGLTF
        /\ \A t \in 0..(Len(bmd.textures) - 1) :
               bmd.textures[t + 1].decodable =>
                   /\ t \in DOMAIN textureIndexToGLTF
                   /\ textures[textureIndexToGLTF[t] + 1].name = << "tex", t >>
        /\ Len(images) = Len(textures)
        /\ Len(textures) = Cardinality(DOMAIN textureIndexToGLTF)
        /\ \A idx \in DOMAIN materialIndices.textured :
               DecodeFailed(FirstNamedTexture(idx)) =>
                   ~HasBaseColorTexture(TexturedMaterialOf(idx))

\* The materials built for material idx of the model.
MaterialsOf(idx) ==
    { materials[materialIndices.textured[i] + 1] :
        i \in DOMAIN materialIndices.textured \cap { idx } }
    \cup { materials[materialIndices.untextured[i] + 1] :
             i \in DOMAIN materialIndices.untextured \cap { idx } }
\* Material idx has an entry in the material chunk, with this slot table.
HasEntry(idx) == bmd.mat3.defined /\ idx < Len(bmd.mat3.materialEntries)
\* Slot j of material idx names a texture that was decoded and embedded, and
\* the glTF texture made from it has index g.
SlotEmbeddedAs(idx, j, g) ==
    LET t == bmd.mat3.materialEntries[idx + 1][j]
    IN  /\ t >= 0 /\ t < Len(bmd.textures)
        /\ bmd.textures[t + 1].data /\ bmd.textures[t + 1].decodable
        /\ g < Len(textures) /\ textures[g + 1].name = << "tex", t >>

\* C15: every material is opaque and double sided; a material without a
\* material chunk, without an entry, or whose eight slots are all -1 has no
\* baseColorTexture; a material has a baseColorTexture only if one of its
\* slots names an embedded texture, and then it is that texture.
C15_MaterialDefaults ==
    /\ \A k \in 1..Len(materials) :
           materials[k].alphaMode = "OPAQUE" /\ materials[k].doubleSided
    /\ cpc \in { "meshes", "done" } =>
         \A idx \in DOMAIN materialIndices.textured
                    \cup DOMAIN materialIndices.untextured :
           \A material \in MaterialsOf(idx) :
             /\ ( \/ ~HasEntry(idx)
                  \/ bmd.mat3.materialEntries[idx + 1] = Slots(-1, -1) )
                => ~HasBaseColorTexture(material)
             /\ HasBaseColorTexture(material) =>
                  /\ HasEntry(idx)
                  /\ \E j \in 1..8 :
                       SlotEmbeddedAs(idx, j,
                           material.pbrMetallicRoughness
                               .baseColorTexture.index)

\* A model whose material 0 has no valid slot and whose material 1 names an
\* embedded texture in its second slot: one material without, one with a
\* baseColorTexture.
C15_Witness ==
    /\ cresult = "written"
    /\ bmd.mat3 = Mat3(<< Slots(-1, -1), Slots(-1, 1) >>)
    /\ DOMAIN materialIndices.textured = { 0, 1 }
    /\ ~HasBaseColorTexture(TexturedMaterialOf(0))
    /\ HasBaseColorTexture(TexturedMaterialOf(1))

\* The matrix definition the first entry of the group's bone-use table
\* names, as a sequence of at most one element.
FirstDefinition ==
    LET s == skin[1]
        defs == ReadDRW1Chunk(s.drw1.entries)
    IN  IF /\ Len(s.useMtxTable) > 0 /\ s.drw1.defined
           /\ s.useMtxTable[1] < Len(defs)
        THEN << defs[s.useMtxTable[1] + 1] >> ELSE <<>>
\* The weighted bones of the envelope that definition names, <<>> when it
\* names none.
FirstEnvelope ==
    IF /\ FirstDefinition # <<>> /\ FirstDefinition[1].kind = 1
       /\ skin[1].evp1.defined
       /\ FirstDefinition[1].envelopeIndex < Len(skin[1].evp1.envelopes)
    THEN skin[1].evp1.envelopes[FirstDefinition[1].envelopeIndex + 1]
    ELSE <<>>
\* The bones of FirstEnvelope the binding keeps: those its first
\* min(4, number of bones) joints name (bone k is bound to joint k).
KeptCount == IF Len(FirstEnvelope) < 4 THEN Len(FirstEnvelope) ELSE 4
KeptWeight(k) == FirstEnvelope[binding[1].joints[k]].weight
KeptSum == SumSeq([ k \in 1..KeptCount |-> KeptWeight(k) ])
\* Fractions: equality, order and the sum of four.
FracEq(a, b) == a[1] * b[2] = b[1] * a[2]
FracGeq(a, b) == a[1] * b[2] >= b[1] * a[2]
FracSumIsOne(w) ==
    /\ \A k \in 1..4 : w[k][2] > 0
    /\ w[1][1] * w[2][2] * w[3][2] * w[4][2]
       + w[2][1] * w[1][2] * w[3][2] * w[4][2]
       + w[3][1] * w[1][2] * w[2][2] * w[4][2]
       + w[4][1] * w[1][2] * w[2][2] * w[3][2]
       = w[1][2] * w[2][2] * w[3][2] * w[4][2]

\* C16: a group whose first bone-use entry names an envelope binds to the
\* envelope's four heaviest bones, heaviest first, each with its weight
\* divided by the sum of the kept weights when that sum is positive; the
\* pairs beyond the envelope's bones are (0, 0.0); the four weights sum to 1.
C16_EnvelopeBinding ==
    binding # <<>> /\ FirstEnvelope # <<>> =>
      LET b == binding[1] IN
        /\ \A k \in 1..KeptCount : b.joints[k] \in 1..Len(FirstEnvelope)
        /\ \A k, l \in 1..KeptCount : k # l => b.joints[k] # b.joints[l]
        /\ KeptSum > 0 =>
             /\ \A k \in 1..KeptCount :
                    FracEq(b.weights[k], << KeptWeight(k), KeptSum >>)
             /\ \A k \in 1..KeptCount :
                    \A i \in 1..Len(FirstEnvelope) :
                        i \notin { b.joints[l] : l \in 1..KeptCount }
                        => FirstEnvelope[i].weight <= KeptWeight(k)
             /\ \A k \in 1..3 : FracGeq(b.weights[k], b.weights[k + 1])
             /\ \A k \in (KeptCount + 1)..4 :
                    b.joints[k] = 0 /\ FracEq(b.weights[k], << 0, 1 >>)
             /\ FracSumIsOne(b.weights)

\* An envelope of five bones, all of positive weight, lighter bones before
\* heavier ones: one bone is dropped and the other four are reordered.
C16_Witness ==
    /\ binding # <<>>
    /\ Len(FirstEnvelope) = 5
    /\ \A i \in 1..5 : FirstEnvelope[i].weight > 0
    /\ FirstEnvelope[1].weight < FirstEnvelope[5].weight
    /\ binding[1].joints[1] = 5

\* C17: a group whose first bone-use entry names an envelope whose kept
\* weights sum to 0 is bound to joint 0 with weight 1 and three times to
\* joint 0 with weight 0.
C17_DegenerateEnvelope ==
    binding # <<>> /\ FirstEnvelope # <<>> /\ KeptSum = 0 =>
        /\ binding[1].joints = << 0, 0, 0, 0 >>
        /\ FracEq(binding[1].weights[1], << 1, 1 >>)
        /\ \A k \in 2..4 : FracEq(binding[1].weights[k], << 0, 1 >>)

\* C18: a group whose first bone-use entry names a joint definition of
\* joint j is bound to (j, 0, 0, 0) with the weights (1, 0, 0, 0), whatever
\* the other entries of the table name.
C18_DirectJoint ==
    binding # <<>> /\ FirstDefinition # <<>> /\ FirstDefinition[1].kind = 0 =>
        /\ binding[1].joints = << FirstDefinition[1].jointIndex, 0, 0, 0 >>
        /\ FracEq(binding[1].weights[1], << 1, 1 >>)
        /\ \A k \in 2..4 : FracEq(binding[1].weights[k], << 0, 1 >>)

\* The table's first entry names joint 1 and its second entry an envelope
\* with a bone of positive weight.
C18_Witness ==
    /\ binding # <<>>
    /\ skin[1].useMtxTable = << 1, 0 >>
    /\ skin[1].drw1.entries = << [ kind |-> 1, param |-> 0 ],
                                 [ kind |-> 0, param |-> 1 ] >>
    /\ skin[1].evp1.defined
    /\ Len(skin[1].evp1.envelopes[1]) > 1
    /\ skin[1].evp1.envelopes[1][2].weight > 0
    /\ binding[1].joints = << 1, 0, 0, 0 >>

\* Matrix group g of the shape has a vertex to read, and its vertex buffer is
\* shorter than one stride: it holds the position of the first vertex but
\* not the normal.
PositionOnly(g) ==
    LET layout == shapeArg[1].layout
        mtxGroup == shapeArg[1].mtxGroups[g]
    IN  /\ layout.stride > 0 /\ layout.POS # -1 /\ layout.NRM # -1
        /\ mtxGroup.totalVertexCount >= 1
        /\ mtxGroup.vbByteLength < layout.stride
        /\ layout.POS + 12 <= mtxGroup.vbByteLength
        /\ layout.NRM + 12 > mtxGroup.vbByteLength

\* C19: the turn of the loop for a matrix group whose vertex buffer is
\* shorter than one stride, holding the position of the first vertex but not
\* its normal, adds a position for the group and adds no normal.
C19_PositionWithoutNormal ==
    [][ (arrays'.group = arrays.group + 1 /\ PositionOnly(arrays'.group))
        => /\ Len(arrays'.allPositions) > Len(arrays.allPositions)
           /\ arrays'.allNormals = arrays.allNormals ]_vars


\* C20: of the normals returned for a shape, one read as a vector that is
\* not zero has length 1, and one read as the zero vector is the zero vector,
\* with a divisor that is not 0.
C20_UnitNormals ==
    \A r \in { returned[i] : i \in DOMAIN returned } :
      \A i \in DOMAIN r.normals :
        LET n == r.normals[i]
            squares == n.vector[1] * n.vector[1] + n.vector[2] * n.vector[2]
                       + n.vector[3] * n.vector[3]
        IN  /\ n.vector = arrays.allNormals[i]
            /\ n.len > 0
            /\ squares # 0 => squares = n.len * n.len
            /\ squares = 0 => n.len = 1

\* A shape has come back with a normal read as zero and one read as a
\* vector of a length other than 1.
C20_Witness ==
    /\ returned # <<>>
    /\ \E i, j \in DOMAIN returned[1].normals :
         /\ returned[1].normals[i].vector = << 0, 0, 0 >>
         /\ returned[1].normals[j].vector # << 0, 0, 0 >>
         /\ returned[1].normals[j].len > 1


\* The number of vertices of which an attribute of bytesNeeded bytes at
\* attrOffs lies within a buffer of vbByteLength bytes, at most the declared
\* count: the largest n with attrOffs + (n - 1) * stride + bytesNeeded within
\* the buffer.
Fitting(bytesNeeded, attrOffs, stride, vbByteLength, totalVertexCount) ==
    IF attrOffs + bytesNeeded > vbByteLength THEN 0
    ELSE Least({ totalVertexCount,
                 ((vbByteLength - attrOffs - bytesNeeded) \div stride) + 1 })

\* A turn of the loop over the matrix groups has been taken.
GroupProcessed == arrays'.group = arrays.group + 1

\* C21: under a stride above 0, the turn of the loop for a matrix group reads
\* of every attribute the layout has as many vertices as lie within the
\* vertex buffer, at most the declared count, and none when the first does
\* not; and no read goes past the end of the buffer.
C21_FittedCounts ==
    [][ (GroupProcessed /\ shapeArg[1].layout.stride > 0)
        => LET layout == shapeArg[1].layout
               mtxGroup == shapeArg[1].mtxGroups[arrays'.group]
               fitting(bytesNeeded, attrOffs) ==
                   Fitting(bytesNeeded, attrOffs, layout.stride,
                           mtxGroup.vbByteLength, mtxGroup.totalVertexCount)
               read(list) == Len(arrays'[list]) - Len(arrays[list])
           IN  /\ layout.POS # -1
                    => read("allPositions") = fitting(12, layout.POS)
               /\ layout.NRM # -1
                    => read("allNormals") = fitting(12, layout.NRM)
               /\ layout.TEX0 # -1
                    => read("allTexCoords") = fitting(8, layout.TEX0)
               /\ layout.CLR0 # -1
                    => read("allColors") = fitting(4, layout.CLR0)
               /\ ~arrays'.outOfRange ]_vars


\* The index triples of the draws of a matrix group in the order of the
\* index data: of each draw the consecutive triples from its indexOffset, as
\* many as are complete within its indexCount and within the index data.
SourceTriangles(mtxGroup) ==
    Concat([ d \in 1..Len(mtxGroup.draws) |->
               LET draw == mtxGroup.draws[d]
                   readable == IF Len(mtxGroup.indexData) > draw.indexOffset
                               THEN Len(mtxGroup.indexData) - draw.indexOffset
                               ELSE 0
                   count == IF draw.indexCount < readable
                            THEN draw.indexCount ELSE readable
               IN  [ t \in 1..(count \div 3) |->
                       SubSeq(mtxGroup.indexData,
                              draw.indexOffset + 3 * t - 2,
                              draw.indexOffset + 3 * t) ] ])

\* The indices a turn of the loop has added, as triples.
AddedTriangles ==
    LET added == SubSeq(arrays'.allIndices, Len(arrays.allIndices) + 1,
                        Len(arrays'.allIndices))
    IN  [ t \in 1..(Len(added) \div 3) |-> SubSeq(added, 3 * t - 2, 3 * t) ]

\* The positions a turn of the loop has added.
AddedPositions == Len(arrays'.allPositions) - Len(arrays.allPositions)

FirstVertexId(g) ==
    SumSeq([ k \in 1..(g - 1) |-> shapeArg[1].mtxGroups[k].totalVertexCount ])

\* C23: a turn of the loop adds, for every triangle of the group whose three
\* vertices it has read, the triangle's vertices counted from the group's
\* first vertex plus the number of positions added by the groups before;
\* and every index added is below the number of positions.
C23_RunningOffset ==
    [][ GroupProcessed
        => LET first == FirstVertexId(arrays'.group)
               emitted(triangle) ==
                   \A k \in 1..3 : /\ triangle[k] - first >= 0
                                   /\ triangle[k] - first < AddedPositions
               kept == SelectSeq(
                   SourceTriangles(shapeArg[1].mtxGroups[arrays'.group]),
                   emitted)
           IN  /\ AddedTriangles
                    = [ t \in 1..Len(kept) |->
                          [ k \in 1..3 |-> kept[t][k] - first
                                           + Len(arrays.allPositions) ] ]
               /\ \A i \in 1..Len(arrays'.allIndices) :
                    arrays'.allIndices[i] < Len(arrays'.allPositions)
      ]_vars


\* The skinning resolved for group g of the shape.
BindingOf(g) == ResolveSkin(<< g - 1 >>, shapeArg[1].drw1, shapeArg[1].evp1)

\* C24: a turn of the loop adds for every position one tuple of four joints
\* and one of four weights, the ones resolved for the group; the arrays
\* returned for the shape hold as many joint tuples and weight tuples as
\* positions.
C24_SkinPerVertex ==
    [][ /\ GroupProcessed
          => LET g == arrays'.group
                 old == Len(arrays.allJoints)
             IN  /\ Len(arrays.allJoints) = Len(arrays.allPositions)
                 /\ Len(arrays.allWeights) = Len(arrays.allPositions)
                 /\ Len(arrays'.allJoints) = Len(arrays'.allPositions)
                 /\ Len(arrays'.allWeights) = Len(arrays'.allPositions)
                 /\ SubSeq(arrays'.allJoints, 1, old) = arrays.allJoints
                 /\ SubSeq(arrays'.allWeights, 1, old) = arrays.allWeights
                 /\ \A v \in (old + 1)..Len(arrays'.allJoints) :
                      /\ arrays'.allJoints[v] = BindingOf(g).joints
                      /\ Len(arrays'.allJoints[v]) = 4
                      /\ arrays'.allWeights[v] = BindingOf(g).weights
                      /\ Len(arrays'.allWeights[v]) = 4
        /\ returned' # <<>>
          => /\ Len(returned'[1].joints) = Len(returned'[1].positions)
             /\ Len(returned'[1].weights) = Len(returned'[1].positions)
             /\ returned'[1].joints = arrays.allJoints
             /\ returned'[1].weights = arrays.allWeights
      ]_vars

\* A shape has come back whose two groups are bound differently, one to a
\* joint and one to an envelope, each with vertices.
C24_Witness ==
    /\ returned # <<>>
    /\ Len(shapeArg[1].mtxGroups) = 2
    /\ \E v, w \in DOMAIN returned[1].joints :
         /\ returned[1].joints[v] = << 2, 0, 0, 0 >>
         /\ returned[1].joints[w] = << 2, 1, 0, 0 >>
         /\ returned[1].weights[w] = << << 2, 3 >>, << 1, 3 >>, << 0, 3 >>,
                                        << 0, 3 >> >>


\* The vertex of the input a position was decoded from: its group and its
\* number within the group.
SourceOf(position) == [ group |-> position[1], vertex |-> position[2] ]

\* C27: of the vertex attributes returned for a shape, the normals, the
\* texture coordinates and the colours are each either absent or as many as
\* the positions, and the k-th of them was decoded from the vertex the k-th
\* position was decoded from.
C27_AttributesAligned ==
    \A r \in { returned[i] : i \in DOMAIN returned } :
      LET source(k) == VertexOf(SourceOf(r.positions[k]).group,
                                SourceOf(r.positions[k]).vertex)
      IN  /\ \A k \in DOMAIN r.positions : r.positions[k] = source(k).position
          /\ r.normals # <<>>
               => /\ Len(r.normals) = Len(r.positions)
                  /\ \A k \in DOMAIN r.normals :
                       r.normals[k].vector = source(k).normal
          /\ r.texCoords0 # <<>>
               => /\ Len(r.texCoords0) = Len(r.positions)
                  /\ \A k \in DOMAIN r.texCoords0 :
                       r.texCoords0[k] = source(k).texCoord
          /\ r.colorsU8 # <<>>
               => /\ Len(r.colorsU8) = Len(r.positions)
                  /\ \A k \in DOMAIN r.colorsU8 :
                       r.colorsU8[k] = source(k).color

\* A shape has come back with normals, texture coordinates and colours, one
\* of its two groups having a vertex buffer that was cut short and the
\* other a vertex buffer that gave vertices.
C27_Witness ==
    /\ returned # <<>>
    /\ Len(shapeArg[1].mtxGroups) = 2
    /\ \E g, h \in 1..2 :
         /\ shapeArg[1].mtxGroups[g].vbByteLength
              < shapeArg[1].mtxGroups[g].totalVertexCount
                * shapeArg[1].layout.stride
         /\ shapeArg[1].mtxGroups[h].vbByteLength
              >= shapeArg[1].layout.stride
    /\ returned[1].normals # <<>>
    /\ returned[1].texCoords0 # <<>>
    /\ returned[1].colorsU8 # <<>>
    /\ Len(returned[1].positions) >= 2


\* The positions the shape's arrays hold of the groups from group a to
\* group b.
PositionsOfGroups(a, b) ==
    Cardinality({ k \in DOMAIN arrays.allPositions :
                    /\ SourceOf(arrays.allPositions[k]).group >= a
                    /\ SourceOf(arrays.allPositions[k]).group <= b })

\* The index of the shape's arrays each index of a kept triangle names: the
\* vertex's number within its group plus the positions of the groups
\* before.  A triangle is kept when its three indices, as they stand in the
\* index data, are below the positions read of its group.
IntendedIndices ==
    Concat([ g \in 1..Len(shapeArg[1].mtxGroups) |->
               LET keptByCode(triangle) ==
                       \A k \in 1..3 : triangle[k] < PositionsOfGroups(g, g)
                   kept == SelectSeq(SourceTriangles(shapeArg[1].mtxGroups[g]),
                                     keptByCode)
               IN  Concat([ t \in 1..Len(kept) |->
                              [ k \in 1..3 |->
                                  kept[t][k] - FirstVertexId(g)
                                  + PositionsOfGroups(1, g - 1) ] ]) ])

\* C28: the 16-bit indices returned for a shape are the indices the kept
\* triangles name, each below the number of positions, and the 16-bit
\* joints returned for a vertex are the joints resolved for its group.
C28_StoredValues ==
    \A r \in { returned[i] : i \in DOMAIN returned } :
      /\ r.indices = IntendedIndices
      /\ \A i \in DOMAIN r.indices : r.indices[i] < Len(r.positions)
      /\ \A k \in DOMAIN r.joints :
           r.joints[k] = BindingOf(SourceOf(r.positions[k]).group).joints


\* Every baseColorTexture of a material names a texture the builder holds,
\* whose image and sampler the builder holds.
TexturesRegistered ==
    \A m \in DOMAIN materials :
      HasBaseColorTexture(materials[m]) =>
        LET index == materials[m].pbrMetallicRoughness.baseColorTexture.index
        IN  /\ index >= 0 /\ index < Len(textures)
            /\ textures[index + 1].source >= 0
            /\ textures[index + 1].source < Len(images)
            /\ textures[index + 1].sampler >= 0
            /\ textures[index + 1].sampler < Len(samplers)

\* C25: a step of a conversion decodes at most one texture, the next of the
\* table; a step that adds an image, a sampler or a texture comes before
\* the first material is added and adds none; and every baseColorTexture of
\* a material names a texture already in the builder, with its image and its
\* sampler.
C25_TexturesBeforeMaterials ==
    /\ []TexturesRegistered
    /\ [][ /\ Len(bmd'.textures) <= Len(bmd.textures) + 1
           /\ Len(images') <= Len(images) + 1
           /\ Len(images') > Len(images)
                => Len(bmd'.textures) = Len(bmd.textures) + 1
           /\ (images' # images \/ samplers' # samplers
               \/ textures' # textures)
                => materials = <<>> /\ materials' = <<>>
           /\ materials' # materials
                => /\ images' = images /\ samplers' = samplers
                   /\ textures' = textures
                   /\ cpc = "materials" ]_vars

\* Two textures have been decoded, one after the other, and a material
\* built afterwards holds the second as its baseColorTexture.
C25_Witness ==
    /\ Len(images) = 2 /\ Len(textures) = 2
    /\ \E m \in DOMAIN materials :
         /\ HasBaseColorTexture(materials[m])
         /\ materials[m].pbrMetallicRoughness.baseColorTexture.index = 1


\* C26: the cursor is 0x20 when the first chunk is read; a step that consumes
\* a chunk moves it forward by the size read from that chunk's header, at the
\* place where the cursor stood, and no other step moves it, so that after k
\* chunks it is 0x20 plus the k sizes; and the step that finds, where the
\* material chunk may stand, a tag other than MAT3 leaves the cursor and the
\* empty material list as they are and goes on to the hierarchy without an
\* error.
C26_CursorAdvances ==
    [][ /\ tags = <<>> /\ tags' # <<>> => offs = 32
        /\ offs' # offs =>
             \/ pc = "parse" /\ offs' = 32
             \/ /\ pc \in { "INF1", "VTX1", "EVP1", "DRW1", "JNT1", "SHP1",
                            "MAT3" }
                /\ lastHeader'.id = pc
                /\ lastHeader'.at = offs
                /\ offs' = offs + lastHeader'.size
        /\ (Len(decoded') > Len(decoded) \/ mat3' # mat3)
             => /\ lastHeader'.at = offs
                /\ offs' = offs + lastHeader'.size
        /\ (pc = "MAT3" /\ lastHeader'.id \notin { "MAT3", "EOB" })
             => /\ offs' = offs
                /\ mat3 = FALSE /\ mat3' = FALSE
                /\ decoded' = decoded
                /\ pc' = "assocHierarchy"
                /\ result' = "none"
      ]_vars

\* A parse has returned a model without a material list: six chunks of 8 and
\* of 16 bytes were consumed, and the tag found next was not MAT3.
C26_Witness ==
    /\ result = "model"
    /\ mat3 = FALSE
    /\ Len(tags) = 7
    /\ tags[7] = "TEX1"
    /\ offs > 32 + 6 * 8
    /\ offs < 32 + 6 * 16



(***************************************************************************)
(* findChunk, called by extractTEX1Textures with the tag 'TEX1'            *)
(*                                                                         *)
(* The buffer is given by its byteLength and by the 32-bit file size that  *)
(* stands at 0x08; a chunk header is read when the scan reaches it, and    *)
(* read again at the same offset it is the same header.  tex1.state tells  *)
(* where the call stands: "entered", "scanning" (at the loop's condition), *)
(* "reading" (in the loop's body), or ended as "chunk" (the chunk of the   *)
(* tag was returned), "null" or "error" (an exception left findChunk).     *)
(***************************************************************************)
FindInit ==
    /\ BuilderInit /\ ParseIdle /\ BatchIdle /\ ConvIdle /\ SkinIdle
    /\ modelData \in { << [ byteLength |-> b, fileSize |-> f ] >> :
                         b \in { 8, 48, 64 }, f \in { 0, 40, 48, 64, 80 } }
    /\ scanOffs = 0 /\ scanned = <<>>
    /\ tex1 = << [ state |-> "entered", offs |-> 0, size |-> 0 ] >>
    /\ outputBase = <<>> /\ objectModelCache = <<>> /\ lookups = <<>>

\* const view = buffer.createDataView(); let offs = 0x20;
\* const fileSize = view.getUint32(0x08): a DataView throws a RangeError for
\* a read that ends behind the buffer.
EnterFindChunk ==
    /\ tex1 # <<>> /\ tex1[1].state = "entered"
    /\ IF 8 + 4 > modelData[1].byteLength
       THEN /\ tex1' = << [ tex1[1] EXCEPT !.state = "error" ] >>
            /\ UNCHANGED scanOffs
       ELSE /\ tex1' = << [ tex1[1] EXCEPT !.state = "scanning" ] >>
            /\ scanOffs' = 32
    /\ UNCHANGED << modelData, scanned, outputBase, objectModelCache, lookups >>
    /\ UNCHANGED nonLookupVars

\* while (offs + 0x08 <= fileSize): enter the body, or leave the loop and
\* return null.
TestLoop ==
    /\ tex1 # <<>> /\ tex1[1].state = "scanning"
    /\ tex1' = << [ tex1[1] EXCEPT
                      !.state = IF scanOffs + 8 <= modelData[1].fileSize
                                THEN "reading" ELSE "null" ] >>
    /\ UNCHANGED << modelData, scanOffs, scanned, outputBase,
                    objectModelCache, lookups >>
    /\ UNCHANGED nonLookupVars

\* The body of the while loop.  The header behind the buffer's end cannot be
\* read (view.getUint32 throws); subarray(offs, size) of a range that ends
\* behind the buffer belongs to ArrayBufferSlice, which may reject it.  With
\* another tag than the requested one, control returns to the condition.
ScanChunk ==
    /\ tex1 # <<>> /\ tex1[1].state = "reading"
    /\ IF scanOffs + 8 > modelData[1].byteLength
       THEN /\ tex1' = << [ tex1[1] EXCEPT !.state = "error" ] >>
            /\ UNCHANGED << scanOffs, scanned >>
       ELSE \E id \in { "TEX1", "MAT3" }, size \in { 0, 8, 16 },
               rejects \in BOOLEAN :
              /\ scanned # <<>> /\ scanned[1].offs = scanOffs
                   => id = scanned[1].id /\ size = scanned[1].size
              /\ rejects => scanOffs + size > modelData[1].byteLength
              /\ scanned' = << [ offs |-> scanOffs, id |-> id,
                                 size |-> size ] >>
              /\ IF rejects
                 THEN /\ tex1' = << [ tex1[1] EXCEPT !.state = "error" ] >>
                      /\ UNCHANGED scanOffs
                 ELSE IF id = "TEX1"
                 THEN /\ tex1' = << [ state |-> "chunk", offs |-> scanOffs,
                                      size |-> size ] >>
                      /\ UNCHANGED scanOffs
                 ELSE /\ scanOffs' = scanOffs + size
                      /\ tex1' = << [ tex1[1] EXCEPT
                                        !.state = "scanning" ] >>
    /\ UNCHANGED << modelData, outputBase, objectModelCache, lookups >>
    /\ UNCHANGED nonLookupVars

FindNext == EnterFindChunk \/ TestLoop \/ ScanChunk

\* findChunk is one synchronous call: once entered it keeps running.
FindSpec == FindInit /\ [][FindNext]_vars /\ WF_vars(FindNext)

\* C29: findChunk terminates on every input buffer: whatever chunk headers
\* the buffer holds, a chunk of declared size 0 and a file size larger than
\* the buffer included, the scan ends by returning the first chunk with the
\* requested tag, by returning null, or by raising an error.
C29_FindChunkTerminates ==
    <>(tex1 # <<>> /\ tex1[1].state \in { "chunk", "null", "error" })



(***************************************************************************)
(* SceneExporter.findObjectModelGLB                                        *)
(*                                                                         *)
(* The output directory is given by what the calls read of it: whether     *)
(* <outputBase>/Object exists, the folders readdirSync lists in it, and    *)
(* the files readdirSync lists in an object folder, in the listing's       *)
(* order.  A file is its base name and its extension, a path is a folder   *)
(* and a file, and a path or null is a sequence of one path or of none.    *)
(* The directory does not change between the calls.                        *)
(***************************************************************************)
\* String.prototype.toLowerCase on the names that occur.
ToLowerCase(s) ==
    CASE s = "Ah" -> "ah"
      [] s = "AH" -> "ah"
      [] s = "agbF" -> "agbf"
      [] s = "Agb" -> "agb"
      [] s = "TagHt" -> "taght"
      [] OTHER -> s

\* ObjectNameMapper.nameToFolderMap, as far as the names looked up go: agbF
\* is mapped to the folder Agb, TagHt to null; Ah is not a key.
nameToFolderMap == ("agbF" :> << "Agb" >>) @@ ("TagHt" :> <<>>)

hasNoModel(objectName) ==
    objectName \in DOMAIN nameToFolderMap /\ nameToFolderMap[objectName] = <<>>

getFolderName(objectName) ==
    IF objectName \in DOMAIN nameToFolderMap
    THEN nameToFolderMap[objectName]
    ELSE << objectName >>

\* The sequences of at most n different elements of S.
Arrangements(S, n) ==
    { s \in UNION { [1..k -> S] : k \in 0..n } :
        \A i, j \in DOMAIN s : i # j => s[i] # s[j] }

SceneInit ==
    /\ BuilderInit /\ ParseIdle /\ BatchIdle /\ ConvIdle /\ SkinIdle
    /\ modelData = <<>> /\ scanOffs = 0 /\ scanned = <<>> /\ tex1 = <<>>
    /\ outputBase \in
         { << [ object |-> d.object, dirs |-> d.dirs, files |-> f ] >> :
             d \in { [ object |-> FALSE, dirs |-> <<>> ],
                     [ object |-> TRUE, dirs |-> <<>> ],
                     [ object |-> TRUE, dirs |-> << "Ah", "Agb" >> ],
                     [ object |-> TRUE, dirs |-> << "AH", "agb" >> ] },
             f \in Arrangements({ [ base |-> "Ah", ext |-> ".glb" ],
                                  [ base |-> "agbf", ext |-> ".glb" ],
                                  [ base |-> "body", ext |-> ".glb" ],
                                  [ base |-> "Ah", ext |-> ".png" ] },
                                MaxFiles) }
    /\ objectModelCache = <<>>
    /\ lookups = <<>>

\* Array.prototype.find: the first element of s among those at the indices
\* hits, where the test holds, or undefined.
FirstIn(s, hits) ==
    IF hits = {}
    THEN <<>>
    ELSE << s[CHOOSE i \in hits : \A j \in hits : i <= j] >>

\* findObjectModelGLBInDir: the value stored in the cache for the object and
\* the path returned.
findObjectModelGLBInDir(objectDir, files, objectNameLower) ==
    LET glbFiles == SelectSeq(files, LAMBDA f : f.ext = ".glb")
        fullPaths == [ i \in DOMAIN glbFiles |->
                         [ dir |-> objectDir, file |-> glbFiles[i] ] ]
        primaryModel ==
            FirstIn(glbFiles,
                    { i \in DOMAIN glbFiles :
                        ToLowerCase(glbFiles[i].base) = objectNameLower })
    IN  IF Len(glbFiles) = 0
        THEN [ cached |-> <<>>, returned |-> <<>> ]
        ELSE IF primaryModel # <<>>
        THEN [ cached |-> fullPaths,
               returned |-> << [ dir |-> objectDir,
                                 file |-> primaryModel[1] ] >> ]
        ELSE [ cached |-> fullPaths, returned |-> << fullPaths[1] >> ]

\* One call of findObjectModelGLB.
findObjectModelGLB ==
    /\ outputBase # <<>>
    /\ Len(lookups) < MaxCalls
    /\ \E objectName \in { "Ah", "agbF", "TagHt" } :
         LET objectNameLower == ToLowerCase(objectName)
             folderName == getFolderName(objectName)
             dirs == outputBase[1].dirs
             foundDir == FirstIn(dirs,
                                 { i \in DOMAIN dirs :
                                     ToLowerCase(dirs[i])
                                         = ToLowerCase(folderName[1]) })
             none == [ cached |-> <<>>, returned |-> <<>> ]
             computed ==
                 IF hasNoModel(objectName) THEN none
                 ELSE IF folderName = <<>> THEN none
                 ELSE IF \A i \in DOMAIN dirs : dirs[i] # folderName[1]
                 THEN IF outputBase[1].object /\ foundDir # <<>>
                      THEN findObjectModelGLBInDir(foundDir[1],
                                                   outputBase[1].files,
                                                   objectNameLower)
                      ELSE none
                 ELSE findObjectModelGLBInDir(folderName[1],
                                              outputBase[1].files,
                                              objectNameLower)
         IN  IF objectNameLower \in DOMAIN objectModelCache
             THEN /\ lookups' = Append(lookups,
                        [ objectName |-> objectName,
                          returned |->
                              IF Len(objectModelCache[objectNameLower]) > 0
                              THEN << objectModelCache[objectNameLower][1] >>
                              ELSE <<>> ])
                  /\ UNCHANGED objectModelCache
             ELSE /\ objectModelCache' =
                        (objectNameLower :> computed.cached)
                            @@ objectModelCache
                  /\ lookups' = Append(lookups,
                        [ objectName |-> objectName,
                          returned |-> computed.returned ])
    /\ UNCHANGED << modelData, scanOffs, scanned, tex1, outputBase >>
    /\ UNCHANGED nonLookupVars

SceneSpec == SceneInit /\ [][findObjectModelGLB]_vars

\* C30: with an unchanged output directory findObjectModelGLB returns the
\* same result for the same object name on every call, computed from the
\* listing or served from the cache; and when a GLB whose base name equals
\* the object name stands in the folder, every call returns that GLB.
C30_SameResultEveryCall ==
    /\ \A i, j \in DOMAIN lookups :
         lookups[i].objectName = lookups[j].objectName
             => lookups[i].returned = lookups[j].returned
    /\ \A i \in DOMAIN lookups :
         LET folder == getFolderName(lookups[i].objectName)
             lower == ToLowerCase(lookups[i].objectName)
         IN  /\ folder # <<>>
             /\ \E k \in DOMAIN outputBase[1].dirs :
                  ToLowerCase(outputBase[1].dirs[k]) = ToLowerCase(folder[1])
             /\ \E k \in DOMAIN outputBase[1].files :
                  /\ outputBase[1].files[k].ext = ".glb"
                  /\ ToLowerCase(outputBase[1].files[k].base) = lower
             => /\ lookups[i].returned # <<>>
                /\ lookups[i].returned[1].file.ext = ".glb"
                /\ ToLowerCase(lookups[i].returned[1].file.base) = lower

=========================================================================
